---- MODULE Spec2Model ----
(***************************************************************************)
(* The sequencing-consensus leader tasks of HotShot,                       *)
(* src/consensus/src/da.rs:                                                *)
(*   DALeader::run_view          parent, transactions, block, DA proposal,  *)
(*                               DA votes -> DA certificate                *)
(*   DAConsensusLeader::run_view parent, leaf, commitment proposal          *)
(*   DANextLeader::run_view      Yes votes -> QC, Timeout votes -> high QC  *)
(* with the signing and vote validation of                                 *)
(* src/crates/types/src/traits/election.rs.                                 *)
(*                                                                         *)
(* One behaviour is the run of one leader task object.  The vote channel   *)
(* delivers an arbitrary message at every recv(): honest votes, votes of   *)
(* Byzantine nodes, interrupts and stray proposals.  What a task reads of  *)
(* shared objects (the consensus state, the transaction pool, the clock)   *)
(* and what the application's block and state types answer is chosen at    *)
(* the moment of the call.                                                 *)
(***************************************************************************)
EXTENDS Integers, FiniteSets, Sequences, TLC

\* ------------------------------------------------------------------ bounds
MaxView == 2
MaxMsgs == 4

\* --------------------------------------------------------------- constants
Threshold == 3

Keys == {"A", "B", "C", "D"}
StakeTable == [k \in Keys |-> 1]
Views == 0..MaxView

\* api.propose_max_round_time() in clock ticks, api.min_transactions()
ProposeMaxRoundTime == 2
MinTransactions == 2

\* A block is the set of the transactions it contains.
Txns == {"t1", "t2"}
Blocks == SUBSET Txns
Leaves == {"l1", "l2"}

None == "none"

\* ------------------------------------------------------------- primitives
\* Committable::commit of a block / leaf / view number: a tagged digest.
BlockCommit(b) == <<"block", b>>
LeafCommit(l) == <<"leaf", l>>
ViewCommit(v) == <<"view", ToString(v)>>

BlockCommitments == {BlockCommit(b) : b \in Blocks}
LeafCommitments == {LeafCommit(l) : l \in Leaves}
Commitments == BlockCommitments \cup LeafCommitments

\* SignatureKey::to_bytes / from_bytes: an encoding and its partial inverse.
to_bytes(k) == <<"pk", k>>
from_bytes(b) == IF b[1] = "pk" /\ b[2] \in Keys THEN b[2] ELSE None
EncodedKeys == {to_bytes(k) : k \in Keys}

\* SignatureKey::sign / validate: a signature names its signer and the bytes
\* it covers; it validates only under that key and over those bytes.
sign(k, bytes) == [signer |-> k, over |-> bytes]
validate(key, sig, bytes) == sig.signer = key /\ sig.over = bytes

\* mutant: one tag for every vote kind
VoteDataTag_Untagged(kind) == "Vote Commit"

\* VoteData::commit: a distinct domain-separation tag per vote kind.
VoteDataTag(kind) ==
    CASE kind = "DA" -> "DA Block Commit"
      [] kind = "Yes" -> "Yes Vote Commit"
      [] kind = "No" -> "No Vote Commit"
      [] kind = "Timeout" -> "Timeout View Number Commit"
      [] kind = "ViewSyncPreCommit" -> "ViewSyncPreCommit"
      [] kind = "ViewSyncCommit" -> "ViewSyncCommit"
      [] kind = "ViewSyncFinalize" -> "ViewSyncFinalize"

VoteData(kind, c) == [kind |-> kind, commitment |-> c]
VoteDataCommit(data) == <<VoteDataTag(data.kind), data.commitment>>

\* VoteToken: vote_count() and the key it was issued to.
Token(k, n) == [vote_count |-> n, owner |-> k]

\* Membership::validate_vote_token on an Unchecked token.  The method is the
\* membership's own: this one answers Ok(Valid) for the token of the key with
\* its stake, Err for a token it cannot read, Ok(Unchecked) for one it leaves
\* unchecked and Ok(Inval) for every other.
validate_vote_token(key, token) ==
    IF token.owner = key /\ token.vote_count = StakeTable[key] THEN "Valid"
    ELSE IF token.owner = "unreadable" THEN "Err"
    ELSE IF token.owner = "unchecked" THEN "Unchecked"
    ELSE "Inval"

\* mutant: a token the membership left unchecked passes
is_valid_vote_Lenient(encoded_key, encoded_signature, data, vote_token) ==
    LET key == from_bytes(encoded_key) IN
    IF key # None
    THEN LET is_valid_signature ==
                 validate(key, encoded_signature, VoteDataCommit(data))
             is_valid_vote_token ==
                 validate_vote_token(key, vote_token) \in {"Valid", "Unchecked"}
         IN  is_valid_signature /\ is_valid_vote_token
    ELSE FALSE

\* ConsensusExchange::is_valid_vote
is_valid_vote(encoded_key, encoded_signature, data, vote_token) ==
    LET key == from_bytes(encoded_key) IN
    IF key # None
    THEN LET is_valid_signature ==
                 validate(key, encoded_signature, VoteDataCommit(data))
             is_valid_vote_token ==
                 validate_vote_token(key, vote_token) = "Valid"
         IN  is_valid_signature /\ is_valid_vote_token
    ELSE FALSE

\* ---------------------------------------------------- finite maps (BTreeMap)
EmptyMap == <<>>
MapInsert(m, k, v) == [x \in (DOMAIN m) \cup {k} |-> IF x = k THEN v ELSE m[x]]
MapRemove(m, k) == [x \in (DOMAIN m) \ {k} |-> m[x]]

\* ------------------------------------------------------------ certificates
QC(c, v, sigs, gen) ==
    [leaf_commitment |-> c, view_number |-> v, signatures |-> sigs,
     is_genesis |-> gen]

\* QuorumCertificate::genesis
GenesisQC == QC(LeafCommit("fake"), 0, EmptyMap, TRUE)

\* Quorum certificates travelling in Timeout votes (signatures abstracted).
JustifyQCs == {QC(LeafCommit("l1"), 1, EmptyMap, FALSE),
               QC(LeafCommit("l2"), MaxView, EmptyMap, FALSE)}
AllQCs == {GenesisQC} \cup JustifyQCs

\* -------------------------------------------------------- states and leaves
\* The application state is opaque: the state an append produces is named by
\* what was appended to what.
GenesisState == "s0"
Appended(state, b, v) == ToString(<<"append", state, b, v>>)
StateCommit(state) == <<"state", state>>

\* Either<State, Commitment<State>> of a leaf
Left(state) == [side |-> "Left", value |-> state]
Right(c) == [side |-> "Right", value |-> ToString(c)]

\* DALeaf
DALeaf(view, height, qc, parent, deltas, state, timestamp, proposer_id) ==
    [view_number |-> view, height |-> height, justify_qc |-> qc,
     parent_commitment |-> parent, deltas |-> deltas, state |-> state,
     rejected |-> <<>>, timestamp |-> timestamp, proposer_id |-> proposer_id]

\* DALeaf::commit: a digest of the fields of the leaf
DALeafCommit(leaf) ==
    LeafCommit(ToString(<<leaf.view_number, leaf.height,
                          leaf.justify_qc.view_number, leaf.justify_qc.leaf_commitment,
                          leaf.parent_commitment, leaf.deltas,
                          leaf.state.side, leaf.state.value,
                          leaf.timestamp, leaf.proposer_id>>))

NoLeaf == DALeaf(0, 0, GenesisQC, LeafCommit("-"), {}, Left("-"), 0, <<"-", "-">>)

\* The leaves a node may have saved for view 0, the view high_qc is of: with
\* or without a transaction in the block, with the state or its commitment.
SavedLeaves ==
    {DALeaf(0, h, GenesisQC, LeafCommit("fake"), d, st, 0, to_bytes("A")) :
        h \in {0}, d \in {{}, {"t1"}},
        st \in {Left(GenesisState), Right(StateCommit(GenesisState))}}

\* The consensus state a task finds under the read lock: state_map holds per
\* view nothing, Failed or the commitment of a leaf; saved_leaves holds leaves
\* by their commitment; high_qc is the highest QC the node has seen.
ViewFailed == [kind |-> "Failed", leaf |-> LeafCommit("-")]
ViewLeaf(c) == [kind |-> "Leaf", leaf |-> c]
LeafMap(ls) == [c \in {DALeafCommit(l) : l \in ls} |->
                   CHOOSE l \in ls : DALeafCommit(l) = c]
ConsensusStates ==
    {[state_map |-> sm, saved_leaves |-> LeafMap(ls), high_qc |-> qc] :
        qc \in {GenesisQC, QC(LeafCommit("l1"), 1, EmptyMap, FALSE)},
        sm \in {EmptyMap, [v \in {0} |-> ViewFailed]}
               \cup {[v \in {0} |-> ViewLeaf(DALeafCommit(l))] : l \in SavedLeaves},
        ls \in {{}, SavedLeaves} \cup {{l} : l \in SavedLeaves}}

\* The QCs a leader can be constructed with as high_qc.
HighQCs == {GenesisQC} \cup {QC(DALeafCommit(l), 0, EmptyMap, FALSE) : l \in SavedLeaves}

\* ------------------------------------------------------------------ signing
\* CommitteeExchange::sign_da_proposal
sign_da_proposal(k, block_commitment) == sign(k, block_commitment)
\* CommitteeExchange::sign_da_vote
sign_da_vote(k, block_commitment) ==
    sign(k, VoteDataCommit(VoteData("DA", block_commitment)))
\* QuorumExchange::sign_validating_or_commitment_proposal
sign_validating_or_commitment_proposal(k, leaf_commitment) == sign(k, leaf_commitment)
\* QuorumExchange::sign_yes_vote
sign_yes_vote(k, leaf_commitment) ==
    sign(k, VoteDataCommit(VoteData("Yes", leaf_commitment)))
\* QuorumExchange::sign_no_vote
sign_no_vote(k, leaf_commitment) ==
    sign(k, VoteDataCommit(VoteData("No", leaf_commitment)))
\* QuorumExchange::sign_timeout_vote
sign_timeout_vote(k, view_number) ==
    sign(k, VoteDataCommit(VoteData("Timeout", ViewCommit(view_number))))
\* ViewSyncExchange::sign_precommit_message
sign_precommit_message(k, c) == sign(k, VoteDataCommit(VoteData("ViewSyncPreCommit", c)))
\* ViewSyncExchange::sign_commit_message
sign_commit_message(k, c) == sign(k, VoteDataCommit(VoteData("ViewSyncCommit", c)))
\* ViewSyncExchange::sign_finalize_message
sign_finalize_message(k, c) == sign(k, VoteDataCommit(VoteData("ViewSyncFinalize", c)))

\* ---------------------------------------------------------------- messages
NoKey == <<"-", "-">>
NoCommitment == <<"-", "-">>
NoSig == [signer |-> "-", over |-> <<"-", NoCommitment>>]
NoToken == Token("-", 0)

Msg(type, kind, view, sender, key, sig, token, c, qc) ==
    [type |-> type, kind |-> kind, view |-> view, sender |-> sender,
     key |-> key, sig |-> sig, token |-> token, commitment |-> c,
     justify_qc |-> qc]

NoMsg == Msg("NoMsg", "-", 0, "-", NoKey, NoSig, NoToken, NoCommitment, GenesisQC)

\* A vote as an honest node k builds it (create_da_message, create_yes_message,
\* create_no_message, create_timeout_message).
HonestVote(kind, v, k, c, qc) ==
    Msg("Vote", kind, v, k, to_bytes(k),
        CASE kind = "DA" -> sign_da_vote(k, c)
          [] kind = "Yes" -> sign_yes_vote(k, c)
          [] kind = "No" -> sign_no_vote(k, c)
          [] kind = "Timeout" -> sign_timeout_vote(k, v),
        Token(k, StakeTable[k]), c, qc)

DAVotesOver(v, cs) == {HonestVote("DA", v, k, c, GenesisQC) : k \in Keys, c \in cs}
DAVotes(v) == DAVotesOver(v, BlockCommitments)
YesVotes(v) == {HonestVote("Yes", v, k, c, GenesisQC) :
                  k \in Keys, c \in LeafCommitments}
NoVotes(v) == {HonestVote("No", v, k, LeafCommit("l1"), GenesisQC) : k \in Keys}
TimeoutVotes(v) == {HonestVote("Timeout", v, k, ViewCommit(v), q) :
                  k \in Keys, q \in JustifyQCs}
HonestVotes(v) == DAVotes(v) \cup YesVotes(v) \cup NoVotes(v) \cup TimeoutVotes(v)

OtherKey(k) == CHOOSE o \in Keys : o # k
\* a block that differs from b in every transaction
OtherBlock(b) == Txns \ b
OtherCommitment(c) ==
    IF c \in BlockCommitments THEN BlockCommit(OtherBlock(c[2]))
    ELSE IF c \in LeafCommitments THEN CHOOSE o \in LeafCommitments : o # c
    ELSE ViewCommit(0)
OtherKind(kind) == IF kind = "DA" THEN "Yes" ELSE "DA"

\* What a Byzantine node can make of a vote.
\* relayed by a node that is not the voter
WrongSender(m) == [m EXCEPT !.sender = OtherKey(m.sender)]
\* labelled with another commitment than the signed one
Mislabel(m) == [m EXCEPT !.commitment = OtherCommitment(m.commitment)]
\* a signature made for another vote kind, replayed
Retag(m) == [m EXCEPT !.sig = sign(m.sig.signer,
                 VoteDataCommit(VoteData(OtherKind(m.kind), m.commitment)))]
\* a vote token issued to another node
BadToken(m) == [m EXCEPT !.token = Token(OtherKey(m.token.owner), m.token.vote_count)]
\* a signature by another key than the claimed one
Forged(m) == [m EXCEPT !.sig = sign(OtherKey(m.sig.signer), m.sig.over)]
\* key bytes that do not decode
GarbageKey(m) == [m EXCEPT !.key = <<"xx", m.key[2]>>]

\* every deviation of the votes that go through is_valid_vote
Deviations(base) ==
    {WrongSender(m) : m \in base} \cup {Mislabel(m) : m \in base}
    \cup {Retag(m) : m \in base} \cup {BadToken(m) : m \in base}
    \cup {Forged(m) : m \in base} \cup {GarbageKey(m) : m \in base}

\* the deviations of a Timeout vote
TimeoutDeviations(base) ==
    {WrongSender(m) : m \in base} \cup {BadToken(m) : m \in base}
    \cup {Forged(m) : m \in base}

ByzantineVotes(v) ==
    Deviations(DAVotes(v) \cup YesVotes(v)) \cup TimeoutDeviations(TimeoutVotes(v))

Interrupt(v) == Msg("NextViewInterrupt", "-", v, "-", NoKey, NoSig, NoToken,
                    NoCommitment, GenesisQC)
ProposalMsg(v) == Msg("Proposal", "-", v, "A", NoKey, NoSig, NoToken,
                    NoCommitment, GenesisQC)

\* Everything the vote channel can deliver.
Messages ==
    UNION {HonestVotes(v) \cup ByzantineVotes(v) \cup {Interrupt(v), ProposalMsg(v)} :
           v \in Views}

\* One message of each shape for view v.
OneOfEach(v) ==
    {HonestVote("DA", v, "A", BlockCommit({}), GenesisQC),
     HonestVote("Yes", v, "A", LeafCommit("l1"), GenesisQC),
     HonestVote("No", v, "A", LeafCommit("l1"), GenesisQC),
     HonestVote("Timeout", v, "A", ViewCommit(v),
                QC(LeafCommit("l2"), MaxView, EmptyMap, FALSE)),
     Interrupt(v), ProposalMsg(v)}

\* The nodes whose votes arrive tampered with.
Byzantine == {"A", "B"}

\* The messages delivered to leader task t of view cv that proposed block b.
\* A message of another view is skipped before its content is looked at, and
\* so is a vote of a kind the task's match has no arm for: of those one of
\* each shape is enough.  The votes the task validates are DA votes over the
\* commitment of b and over that of another block, and Yes votes over every
\* leaf commitment; those of the Byzantine nodes come with every deviation
\* (for the DA leader those over its own block: it validates every vote
\* against that commitment).  A Timeout vote is read by the next leader only,
\* which takes its justify_qc whoever sent it.
Deliverable(t, cv, b) ==
    LET own == IF t = "DALeader"
               THEN DAVotesOver(cv, {BlockCommit(b), BlockCommit(OtherBlock(b))})
               ELSE YesVotes(cv)
        tampered == {m \in own : /\ m.sender \in Byzantine
                                 /\ t = "DALeader" => m.commitment = BlockCommit(b)}
        timeouts == IF t = "DANextLeader" THEN TimeoutVotes(cv) ELSE {}
    IN  own \cup Deviations(tampered)
        \cup timeouts \cup TimeoutDeviations({m \in timeouts : m.sender = "A"})
        \cup UNION {OneOfEach(v) : v \in Views}

\* ------------------------------------------------------------------- state
VARIABLES
    task,            \* which leader task object this is
    pc,              \* where run_view stands: "start", the steps of the
                     \* proposal, "recv": awaiting lock.recv(), "body": in the
                     \* loop body, "done"
    cur_view,        \* self.cur_view
    high_qc,         \* DALeader, DAConsensusLeader: self.high_qc
    cert,            \* DAConsensusLeader: self.cert
    block,           \* DALeader: the block it builds and proposes
                     \* DAConsensusLeader: self.block
    generic_qc,      \* DANextLeader: self.generic_qc
    consensus,       \* what the last parent_leaf() found under the read lock
    parent_leaf,     \* the leaf parent_leaf() returned
    lookup,          \* how the last parent_leaf() ended, "-" outside the proposal
    previous_used_txns, \* wait_for_transactions: the parent's transactions
    snapshot,        \* wait_for_transactions: txns, the last copy of the pool
    unclaimed_txns,  \* wait_for_transactions: the candidates of that copy
    clock,           \* the last reading of task_start_time.elapsed()
    txns,            \* run_view: the candidates not yet tried
    checks,          \* history: candidate -> how its two checks ended
    broadcast,       \* the proposals handed to the network successfully
    leaf,            \* DAConsensusLeader: the leaf it built
    vote_outcomes,   \* DALeader: commitment -> (key -> (sig, token))
                     \* DANextLeader: commitment -> (stake_casted, key -> (sig, token))
    stake_casted,    \* DALeader: the one running total
    qcs,             \* DANextLeader: the set of QCs seen
    msg,             \* the message recv() returned last
    consumed,        \* number of messages taken from the vote channel
    timeouts_sent,   \* calls of api.send_next_leader_timeout, as a sequence of views
    result,          \* what run_view returned
    accepted,        \* history: per commitment the stake and the keys of the votes
                     \* that passed validation
    timeout_qcs,     \* history, DANextLeader: the justify QCs of the Timeout
                     \* votes of its view taken from the channel
    consensus_after, \* the consensus state when the read guard of the last
                     \* parent_leaf() was dropped
    consensus_guard, \* DALeader: whether run_view holds the read guard on
                     \* self.consensus it takes before the broadcast
    verifier,        \* an exchange validating certificates (is_valid_cert)
    network,         \* a network task (NetworkTaskState)
    channel,         \* two leader tasks sharing one vote_collection_chan
    env              \* what surrounds the leader task: "open" (any consensus
                     \* state, any message), "honest" (the node's own
                     \* consensus state, the votes of honest replicas) or
                     \* "replay" (one set of votes, delivered twice)

\* the fields of the task object
fields == <<task, cur_view, high_qc, cert, generic_qc>>
\* what the building of the proposal works on
proposal_vars == <<consensus, consensus_after, parent_leaf, lookup,
                   previous_used_txns, snapshot, unclaimed_txns, clock, txns,
                   checks, leaf>>
\* what the vote collection works on
vote_vars == <<vote_outcomes, stake_casted, qcs, msg, consumed, timeouts_sent,
               accepted, timeout_qcs>>

vars == <<task, pc, cur_view, high_qc, cert, block, generic_qc, consensus, parent_leaf,
          lookup, previous_used_txns, snapshot, unclaimed_txns, clock, txns,
          checks, broadcast, leaf, vote_outcomes, stake_casted,
          qcs, msg, consumed, timeouts_sent, result, accepted, timeout_qcs,
          consensus_after, consensus_guard, verifier, network, channel, env>>
\* the components that are not a leader task, and what surrounds it
others == <<verifier, network, channel, env>>

Pending == [kind |-> "Pending", cert |-> GenesisQC, block |-> None]

NoAccepted == [c \in Commitments |-> [stake |-> 0, keys |-> {}]]

\* DACertificate
DACertificate(view_number, signatures) ==
    [view_number |-> view_number, signatures |-> signatures]
NoCert == DACertificate(0, EmptyMap)

NoChecks == [t \in Txns |-> "untried"]

NoConsensus ==
    [state_map |-> EmptyMap, saved_leaves |-> EmptyMap, high_qc |-> GenesisQC]

\* a component that is not looked at
Absent == [absent |-> TRUE]

\* nothing is assumed of the replicas, the network and the node's state
Open == [kind |-> "open"]

\* The task objects: a DALeader and a DAConsensusLeader of view 1, the view
\* after genesis, and a DANextLeader awaiting the votes of view 1.
Init ==
    /\ task \in {"DALeader", "DAConsensusLeader", "DANextLeader"}
    /\ pc = IF task = "DANextLeader" THEN "recv" ELSE "start"
    /\ cur_view = 1
    /\ high_qc \in (IF task = "DAConsensusLeader" THEN HighQCs ELSE {GenesisQC})
    /\ cert \in (IF task = "DAConsensusLeader"
                 THEN {DACertificate(cur_view, EmptyMap)} ELSE {NoCert})
    /\ block \in (IF task = "DAConsensusLeader" THEN Blocks
                  ELSE IF task = "DALeader" THEN {{}} ELSE {None})
    /\ generic_qc \in (IF task = "DANextLeader"
                       THEN {GenesisQC, QC(LeafCommit("l1"), 1, EmptyMap, FALSE)}
                       ELSE {GenesisQC})
    /\ consensus = NoConsensus
    /\ parent_leaf = NoLeaf
    /\ lookup = "-"
    /\ previous_used_txns = {}
    /\ snapshot = {}
    /\ unclaimed_txns = {}
    /\ clock = 0
    /\ txns = {}
    /\ checks = NoChecks
    /\ broadcast = {}
    /\ leaf = NoLeaf
    /\ vote_outcomes = EmptyMap
    /\ stake_casted = 0
    /\ qcs = IF task = "DANextLeader" THEN {generic_qc} ELSE {}
    /\ msg = NoMsg
    /\ consumed = 0
    /\ timeouts_sent = <<>>
    /\ result = Pending
    /\ accepted = NoAccepted
    /\ timeout_qcs = {}
    /\ consensus_after = NoConsensus
    /\ consensus_guard = FALSE
    /\ verifier = Absent
    /\ network = Absent
    /\ channel = Absent
    /\ env = Open


\* ----------------------------------------------------------------- helpers
\* mutant: the view of a message is never compared
ForeignView_Never(m) == FALSE

\* view_number() of the received message differs from the leader's view
ForeignView(m) == m.view # cur_view

\* mutant: the claimed key is not compared with the sender
SenderMatches_Unchecked(m) == TRUE

\* vote.signature.0 is the encoding of the sender's key
SenderMatches(m) == m.key = to_bytes(m.sender)

\* mutant: the threshold has to be exceeded
ReachedThreshold_Strict(stake) == stake > Threshold

\* stake_casted >= u64::from(threshold)
ReachedThreshold(stake) == stake >= Threshold

\* mutant: the next leader is notified twice
send_next_leader_timeout_Twice(view) == Append(Append(timeouts_sent, view), view)

\* api.send_next_leader_timeout(view)
send_next_leader_timeout(view) == Append(timeouts_sent, view)

\* mutant: any element of the set
max_by_key_Any(s) == s

\* qcs.into_iter().max_by_key(|qc| qc.view_number): an element of maximal
\* view; the iteration order of the HashSet decides among equals.
max_by_key(s) == {q \in s : \A p \in s : p.view_number <= q.view_number}

\* the pair stored per voter key
Entry(m) == [sig |-> m.sig, token |-> m.token]

\* history of validated votes
Accept(m) ==
    [accepted EXCEPT ![m.commitment] =
        [stake |-> @.stake + m.token.vote_count, keys |-> @.keys \cup {m.key}]]

\* `continue`: back to recv() with nothing changed
Continue ==
    /\ pc' = "recv"
    /\ UNCHANGED <<vote_outcomes, stake_casted, qcs, timeouts_sent, result, accepted>>

\* ---------------------------------------------------------------- proposal
\* the key the leader signs with
Leader == "A"
MaxClock == ProposeMaxRoundTime + 1

\* mutant: the leaf found is taken out of saved_leaves
parent_leaf_of_Take(c, qc) ==
    LET parent_view_number == qc.view_number IN
    IF parent_view_number \in DOMAIN c.state_map
    THEN LET view_inner == c.state_map[parent_view_number] IN
         IF view_inner.kind = "Leaf"
         THEN IF view_inner.leaf \in DOMAIN c.saved_leaves
              THEN [how |-> "Found", leaf |-> c.saved_leaves[view_inner.leaf],
                    after |-> [c EXCEPT !.saved_leaves =
                                  MapRemove(@, view_inner.leaf)]]
              ELSE [how |-> "NoLeaf", leaf |-> NoLeaf, after |-> c]
         ELSE [how |-> "Failed", leaf |-> NoLeaf, after |-> c]
    ELSE [how |-> "NoView", leaf |-> NoLeaf, after |-> c]

\* DALeader::parent_leaf and DAConsensusLeader::parent_leaf (the same code):
\* the leaf saved for the view of high_qc, how the lookup ended, and the
\* consensus state the read guard leaves behind (the state is only borrowed:
\* get() on both maps, the leaf is cloned)
parent_leaf_of(c, qc) ==
    LET parent_view_number == qc.view_number IN
    IF parent_view_number \in DOMAIN c.state_map
    THEN LET view_inner == c.state_map[parent_view_number] IN
         IF view_inner.kind = "Leaf"
         THEN IF view_inner.leaf \in DOMAIN c.saved_leaves
              THEN [how |-> "Found", leaf |-> c.saved_leaves[view_inner.leaf],
                    after |-> c]
              ELSE [how |-> "NoLeaf", leaf |-> NoLeaf, after |-> c]
         ELSE [how |-> "Failed", leaf |-> NoLeaf, after |-> c]
    ELSE [how |-> "NoView", leaf |-> NoLeaf, after |-> c]

\* mutant: the lookup is taken to have found a leaf whatever it returned
IsSome_Always(r) == TRUE

\* if let Some(parent) = self.parent_leaf().await
IsSome(r) == r.how = "Found"

\* mutant: a state commitment is taken for a state
IsLeft_Always(l) == TRUE

\* if let Left(state) = &parent_leaf.state
IsLeft(l) == l.state.side = "Left"

\* return None
ReturnNone ==
    /\ pc' = "done"
    /\ result' = [kind |-> "None", cert |-> GenesisQC, block |-> None]

\* self.consensus.read().await: what the consensus state may hold at that
\* moment; among honest replicas it is what the node's own views left there
Readable == IF env.kind = "honest" THEN {env.consensus} ELSE ConsensusStates

\* run_view of DALeader and of DAConsensusLeader up to starting_state: the
\* parent is looked up in what the consensus state holds at that moment
ResolveParent(then) ==
    \E found \in Readable :
        LET r == parent_leaf_of(found, high_qc) IN
        /\ consensus' = found
        /\ consensus_after' = r.after
        /\ lookup' = r.how
        /\ parent_leaf' = r.leaf
        /\ IF ~IsSome(r) THEN ReturnNone
           ELSE IF ~IsLeft(r.leaf) THEN ReturnNone
           ELSE pc' = then /\ UNCHANGED result

\* DALeader::run_view: parent, starting state, starting_state.next_block()
DAStart ==
    /\ task = "DALeader"
    /\ pc = "start"
    /\ ResolveParent("wait")
    /\ block' = {}
    /\ UNCHANGED <<fields, others, consensus_guard, vote_vars, previous_used_txns, snapshot,
                   unclaimed_txns, clock, txns, checks, leaf, broadcast>>

\* wait_for_transactions returns Some(candidates) to run_view
ReturnCandidates(candidates) ==
    /\ txns' = candidates
    /\ pc' = IF candidates = {} THEN "append" ELSE "pack"
    /\ UNCHANGED result

\* DALeader::wait_for_transactions up to the loop: the start time is taken,
\* the parent looked up once more (the leaf of a view does not change, but
\* it may be gone by now) and the pool subscribed to
WaitStart ==
    /\ task = "DALeader"
    /\ pc = "wait"
    /\ clock' = 0
    /\ \E found \in Readable :
          LET r == parent_leaf_of(found, high_qc) IN
          /\ IsSome(r) => r.leaf = parent_leaf
          /\ consensus' = found
          /\ consensus_after' = r.after
          /\ lookup' = r.how
          /\ IF ~IsSome(r) THEN ReturnNone /\ UNCHANGED previous_used_txns
             ELSE /\ previous_used_txns' = r.leaf.deltas
                  /\ pc' = "wait_loop"
                  /\ UNCHANGED result
    /\ UNCHANGED <<fields, others, consensus_guard, vote_vars, block, parent_leaf, snapshot,
                   unclaimed_txns, txns, checks, leaf, broadcast>>

\* the negation of: unclaimed_txns.len() < min_transactions
\*                  && time_past < propose_max_round_time
EnoughOrLate(candidates, time_past) ==
    ~(Cardinality(candidates) < MinTransactions /\ time_past < ProposeMaxRoundTime)

\* DALeader::wait_for_transactions, the loop condition and the body up to the
\* wait for a change of the pool.  elapsed() is read twice; the pool is
\* copied as it is at that moment.
WaitIteration ==
    /\ task = "DALeader"
    /\ pc = "wait_loop"
    /\ \E elapsed \in clock..MaxClock :
          IF ~(elapsed < ProposeMaxRoundTime)
          THEN /\ clock' = elapsed
               /\ ReturnNone
               /\ UNCHANGED <<snapshot, unclaimed_txns, txns>>
          ELSE \E pool \in SUBSET Txns, time_past \in elapsed..MaxClock :
                  LET unclaimed == {t \in pool : t \notin previous_used_txns} IN
                  /\ clock' = time_past
                  /\ snapshot' = pool
                  /\ unclaimed_txns' = unclaimed
                  /\ IF EnoughOrLate(unclaimed, time_past)
                     THEN ReturnCandidates(unclaimed)
                     ELSE pc' = "wait_recv" /\ UNCHANGED <<txns, result>>
    /\ UNCHANGED <<fields, others, consensus_guard, vote_vars, block, consensus, consensus_after, parent_leaf,
                   lookup,
                   previous_used_txns, checks, leaf, broadcast>>

\* DALeader::wait_for_transactions, async_timeout(duration, receiver.recv()):
\* the time is up, the pool was dropped, or the pool changed
WaitRecv ==
    /\ task = "DALeader"
    /\ pc = "wait_recv"
    /\ \/ \E elapsed \in ProposeMaxRoundTime..MaxClock :
             /\ clock' = elapsed
             /\ ReturnCandidates(unclaimed_txns)
       \/ ReturnNone /\ UNCHANGED <<clock, txns>>
       \/ pc' = "wait_loop" /\ UNCHANGED <<clock, txns, result>>
    /\ UNCHANGED <<fields, others, consensus_guard, vote_vars, block, consensus, consensus_after, parent_leaf,
                   lookup,
                   previous_used_txns, snapshot, unclaimed_txns, checks, leaf,
                   broadcast>>

\* mutant: the block is not validated
Accepted_Unvalidated(add_ok, valid) == add_ok

\* if let Ok(new_block) = new_block_check
\*     if starting_state.validate_block(&new_block, &self.cur_view)
Accepted(add_ok, valid) == add_ok /\ valid

\* DALeader::run_view, one pass of `for txn in txns`: what
\* block.add_transaction_raw and starting_state.validate_block answer is up
\* to the application
Pack ==
    /\ task = "DALeader"
    /\ pc = "pack"
    /\ \E txn \in txns, add_ok \in BOOLEAN, valid \in BOOLEAN :
          /\ block' = IF Accepted(add_ok, valid) THEN block \cup {txn} ELSE block
          /\ checks' = [checks EXCEPT ![txn] =
                           IF ~add_ok THEN "not added"
                           ELSE IF ~valid THEN "not valid" ELSE "ok"]
          /\ txns' = txns \ {txn}
          /\ pc' = IF txns' = {} THEN "append" ELSE "pack"
    /\ UNCHANGED <<fields, others, consensus_guard, vote_vars, consensus,
                   consensus_after, parent_leaf, lookup,
                   previous_used_txns, snapshot, unclaimed_txns, clock, leaf,
                   broadcast, result>>

\* the locals of the proposal are not read again
EnterVoteCollection ==
    /\ pc' = "recv"
    /\ consensus' = NoConsensus
    /\ consensus_after' = NoConsensus
    /\ lookup' = "-"
    /\ parent_leaf' = NoLeaf
    /\ previous_used_txns' = {}
    /\ snapshot' = {}
    /\ unclaimed_txns' = {}
    /\ clock' = 0
    /\ txns' = {}
    /\ checks' = NoChecks

\* DALeader::run_view, starting_state.append(&block, &self.cur_view): when it
\* fails the error is logged and the task goes on to the vote collection;
\* when it succeeds the task takes a read guard on self.consensus and hands
\* the signed proposal to api.send_broadcast_message, where it is suspended
AppendBlock ==
    /\ task = "DALeader"
    /\ pc = "append"
    /\ \E append_ok \in BOOLEAN :
          IF append_ok
          THEN /\ pc' = "broadcast"
               /\ consensus_guard' = TRUE
               /\ UNCHANGED <<consensus, consensus_after, parent_leaf, lookup,
                              previous_used_txns,
                              snapshot, unclaimed_txns, clock, txns, checks>>
          ELSE EnterVoteCollection /\ UNCHANGED consensus_guard
    /\ UNCHANGED <<fields, others, vote_vars, block, leaf, broadcast, result>>

\* DAProposal with its signature
DAProposal(deltas, view_number, signature) ==
    [type |-> "DAProposal", deltas |-> deltas, view_number |-> view_number,
     signature |-> signature]

\* DALeader::run_view, the DA proposal is signed and broadcast; whether the
\* network took it or not, a metric of the guarded consensus is counted up,
\* the guard is dropped at the end of the block and the task goes on to the
\* vote collection
Broadcast ==
    /\ task = "DALeader"
    /\ pc = "broadcast"
    /\ LET signature == sign_da_proposal(Leader, BlockCommit(block))
           message == DAProposal(block, cur_view, signature)
       IN  \E sent \in BOOLEAN :
              broadcast' = IF sent THEN broadcast \cup {message} ELSE broadcast
    /\ consensus_guard' = FALSE
    /\ EnterVoteCollection
    /\ UNCHANGED <<fields, others, vote_vars, block, leaf, result>>

\* ------------------------------------------------------- DAConsensusLeader
\* DAConsensusLeader::run_view: parent and starting state
CLStart ==
    /\ task = "DAConsensusLeader"
    /\ pc = "start"
    /\ ResolveParent("propose")
    /\ UNCHANGED <<fields, others, consensus_guard, vote_vars, block, previous_used_txns, snapshot,
                   unclaimed_txns, clock, txns, checks, leaf, broadcast>>

\* the leaf DAConsensusLeader::run_view builds
NewLeaf(parent, new_state) ==
    DALeaf(cur_view, 0, high_qc, DALeafCommit(parent), block, Left(new_state),
           0, to_bytes(Leader))

\* mutant: the proposal carries the commitment of the parent's state
CommitmentProposal_OldState(l, qc, dac, new_state, signature) ==
    [type |-> "CommitmentProposal", block_commitment |-> BlockCommit(l.deltas),
     view_number |-> l.view_number, justify_qc |-> qc, dac |-> dac,
     state_commitment |-> StateCommit(GenesisState),
     proposer_id |-> l.proposer_id, signature |-> signature]

\* CommitmentProposal with its signature
CommitmentProposal(l, qc, dac, new_state, signature) ==
    [type |-> "CommitmentProposal", block_commitment |-> BlockCommit(l.deltas),
     view_number |-> l.view_number, justify_qc |-> qc, dac |-> dac,
     state_commitment |-> StateCommit(new_state),
     proposer_id |-> l.proposer_id, signature |-> signature]

\* DAConsensusLeader::run_view: append, leaf, signature, proposal, broadcast
CLPropose ==
    /\ task = "DAConsensusLeader"
    /\ pc = "propose"
    /\ \E append_ok \in BOOLEAN, sent \in BOOLEAN :
          IF append_ok
          THEN LET new_state == Appended(parent_leaf.state.value, block, cur_view)
                   l == NewLeaf(parent_leaf, new_state)
                   signature == sign_validating_or_commitment_proposal(
                                    Leader, DALeafCommit(l))
                   proposal == CommitmentProposal(l, high_qc, cert, new_state,
                                                  signature)
               IN  /\ leaf' = l
                   /\ IF sent
                      THEN /\ broadcast' = broadcast \cup {proposal}
                           /\ pc' = "done"
                           /\ result' = [kind |-> "HighQC", cert |-> high_qc,
                                         block |-> None]
                      ELSE ReturnNone /\ UNCHANGED broadcast
          ELSE ReturnNone /\ UNCHANGED <<leaf, broadcast>>
    /\ UNCHANGED <<fields, others, consensus_guard, vote_vars, block, consensus, consensus_after, parent_leaf,
                   lookup,
                   previous_used_txns, snapshot, unclaimed_txns, clock, txns,
                   checks>>

\* ----------------------------------------------------------------- channel
\* the keys whose votes the task holds in vote_outcomes
Voted ==
    UNION {DOMAIN (IF task = "DALeader" THEN vote_outcomes[c]
                   ELSE vote_outcomes[c].vote_map) : c \in DOMAIN vote_outcomes}

\* the votes honest replicas cast in answer to the task's view: DA votes over
\* the block of the DA proposal, Yes votes over the leaf of the commitment
\* proposal
RepliesOfHonest ==
    IF task = "DALeader" THEN DAVotesOver(cur_view, {BlockCommit(block)})
    ELSE {HonestVote("Yes", cur_view, k, DALeafCommit(leaf), GenesisQC) : k \in Keys}

\* what the vote channel can hand to the task next; replicas that are known
\* vote once
Inbox ==
    IF env.kind = "open" THEN Deliverable(task, cur_view, block)
    ELSE {m \in (IF env.kind = "honest" THEN RepliesOfHonest ELSE env.votes) :
             m.key \notin Voted}

\* lock.recv().await returns Ok(msg)
Recv ==
    /\ pc = "recv"
    /\ consumed < MaxMsgs
    /\ \E m \in Inbox :
          /\ msg' = m
          /\ timeout_qcs' = IF /\ task = "DANextLeader" /\ m.type = "Vote"
                                /\ m.kind = "Timeout" /\ m.view = cur_view
                            THEN timeout_qcs \cup {m.justify_qc}
                            ELSE timeout_qcs
    /\ consumed' = consumed + 1
    /\ pc' = "body"
    /\ UNCHANGED <<fields, others, consensus_guard, proposal_vars, broadcast, block, vote_outcomes,
                   stake_casted, qcs, timeouts_sent, result, accepted>>

\* ---------------------------------------------------------------- DALeader
\* DALeader::run_view, the validation of a DA vote
DAVoteValid(m) ==
    is_valid_vote(m.key, m.sig, VoteData("DA", BlockCommit(block)), m.token)

\* DALeader::run_view, a validated DA vote
DAAccumulate(m) ==
    LET c == m.commitment
        old == IF c \in DOMAIN vote_outcomes THEN vote_outcomes[c] ELSE EmptyMap
        map == MapInsert(old, m.key, Entry(m))
        outcomes == MapInsert(vote_outcomes, c, map)
        stake == stake_casted + m.token.vote_count
    IN  /\ stake_casted' = stake
        /\ accepted' = Accept(m)
        /\ IF ReachedThreshold(stake)
           THEN /\ vote_outcomes' = MapRemove(outcomes, c)
                /\ result' = [kind |-> "Some",
                              cert |-> [view_number |-> cur_view, signatures |-> map],
                              block |-> block]
                /\ pc' = "done"
           ELSE /\ vote_outcomes' = outcomes
                /\ pc' = "recv"
                /\ UNCHANGED result
        /\ UNCHANGED <<qcs, timeouts_sent>>

\* DALeader::run_view, NextViewInterrupt: notify, break, return None
DAInterrupt ==
    /\ timeouts_sent' = send_next_leader_timeout(cur_view)
    /\ result' = [kind |-> "None", cert |-> GenesisQC, block |-> None]
    /\ pc' = "done"
    /\ UNCHANGED <<vote_outcomes, stake_casted, qcs, accepted>>

\* DALeader::run_view, one pass of the body of the vote loop
DALeaderBody ==
    /\ task = "DALeader"
    /\ pc = "body"
    /\ IF ForeignView(msg) THEN Continue
       ELSE IF msg.type = "Vote" THEN
               IF msg.kind = "DA" THEN
                   IF ~SenderMatches(msg) THEN Continue
                   ELSE IF ~DAVoteValid(msg) THEN Continue
                   ELSE DAAccumulate(msg)
               ELSE Continue
       ELSE IF msg.type = "NextViewInterrupt" THEN DAInterrupt
       ELSE Continue
    /\ UNCHANGED <<fields, others, consensus_guard, proposal_vars, broadcast, block, msg, consumed, timeout_qcs>>

\* DALeader::run_view, recv() returns Err: the loop ends, None
DALeaderClosed ==
    /\ task = "DALeader"
    /\ pc = "recv"
    /\ result' = [kind |-> "None", cert |-> GenesisQC, block |-> None]
    /\ pc' = "done"
    /\ UNCHANGED <<fields, others, consensus_guard, proposal_vars, broadcast, block, vote_outcomes, stake_casted,
                   qcs, msg, consumed, timeouts_sent, accepted, timeout_qcs>>

\* ------------------------------------------------------------ DANextLeader
\* DANextLeader::run_view, the validation of a Yes vote
YesVoteValid(m) ==
    is_valid_vote(m.key, m.sig, VoteData("Yes", m.commitment), m.token)

RECURSIVE TotalStake(_)
\* mutant: one running total over all leaf commitments
TotalStake(outcomes) ==
    IF DOMAIN outcomes = {} THEN 0
    ELSE LET x == CHOOSE x \in DOMAIN outcomes : TRUE
         IN  outcomes[x].stake_casted + TotalStake(MapRemove(outcomes, x))
StakeBefore_AllCommitments(c) == TotalStake(vote_outcomes)

\* the stake a Yes vote for commitment c is added to
StakeBefore(c) ==
    IF c \in DOMAIN vote_outcomes THEN vote_outcomes[c].stake_casted ELSE 0

\* DANextLeader::run_view, a validated Yes vote
NLAccumulate(m) ==
    LET c == m.commitment
        old == IF c \in DOMAIN vote_outcomes THEN vote_outcomes[c].vote_map ELSE EmptyMap
        stake == StakeBefore(c) + m.token.vote_count
        map == MapInsert(old, m.key, Entry(m))
        outcomes == MapInsert(vote_outcomes, c, [stake_casted |-> stake, vote_map |-> map])
    IN  /\ accepted' = Accept(m)
        /\ IF ReachedThreshold(stake)
           THEN /\ vote_outcomes' = MapRemove(outcomes, c)
                /\ result' = [kind |-> "NewQC",
                              cert |-> QC(c, cur_view, map, FALSE),
                              block |-> None]
                /\ pc' = "done"
           ELSE /\ vote_outcomes' = outcomes
                /\ pc' = "recv"
                /\ UNCHANGED result
        /\ UNCHANGED <<stake_casted, qcs, timeouts_sent>>

\* DANextLeader::run_view, a Timeout vote
NLTimeout(m) ==
    /\ qcs' = qcs \cup {m.justify_qc}
    /\ pc' = "recv"
    /\ UNCHANGED <<vote_outcomes, stake_casted, timeouts_sent, result, accepted>>

\* mutant: after the loop the task answers with the QC it was constructed with
NLReturnMax_Generic(s) ==
    result' = [kind |-> "MaxQC", cert |-> generic_qc, block |-> None]

\* DANextLeader::run_view, after the loop
NLReturnMax(s) ==
    \E q \in max_by_key(s) :
        result' = [kind |-> "MaxQC", cert |-> q, block |-> None]

\* DANextLeader::run_view, NextViewInterrupt: notify, break
NLInterrupt ==
    /\ timeouts_sent' = send_next_leader_timeout(cur_view)
    /\ NLReturnMax(qcs)
    /\ pc' = "done"
    /\ UNCHANGED <<vote_outcomes, stake_casted, qcs, accepted>>

\* DANextLeader::run_view, one pass of the body of the vote loop
DANextLeaderBody ==
    /\ task = "DANextLeader"
    /\ pc = "body"
    /\ IF ForeignView(msg) THEN Continue
       ELSE IF msg.type = "Vote" THEN
               IF msg.kind = "Yes" THEN
                   IF ~SenderMatches(msg) THEN Continue
                   ELSE IF ~YesVoteValid(msg) THEN Continue
                   ELSE NLAccumulate(msg)
               ELSE IF msg.kind = "Timeout" THEN NLTimeout(msg)
               ELSE Continue
       ELSE IF msg.type = "NextViewInterrupt" THEN NLInterrupt
       ELSE Continue
    /\ UNCHANGED <<fields, others, consensus_guard, proposal_vars, broadcast, block, msg, consumed, timeout_qcs>>

\* DANextLeader::run_view, recv() returns Err: the loop ends
DANextLeaderClosed ==
    /\ task = "DANextLeader"
    /\ pc = "recv"
    /\ NLReturnMax(qcs)
    /\ pc' = "done"
    /\ UNCHANGED <<fields, others, consensus_guard, proposal_vars, broadcast, block, vote_outcomes, stake_casted,
                   qcs, msg, consumed, timeouts_sent, accepted, timeout_qcs>>

\* ------------------------------------------------------------ specification
Next ==
    \/ DAStart
    \/ WaitStart
    \/ WaitIteration
    \/ WaitRecv
    \/ Pack
    \/ AppendBlock
    \/ Broadcast
    \/ CLStart
    \/ CLPropose
    \/ Recv
    \/ DALeaderBody
    \/ DALeaderClosed
    \/ DANextLeaderBody
    \/ DANextLeaderClosed

Spec == Init /\ [][Next]_vars

TypeOK ==
    /\ task \in {"DALeader", "DAConsensusLeader", "DANextLeader"}
    /\ pc \in {"start", "wait", "wait_loop", "wait_recv", "pack", "append",
               "broadcast", "propose", "recv", "body", "done"}
    /\ high_qc \in HighQCs
    /\ IF task = "DANextLeader" THEN block = None ELSE block \in Blocks
    /\ parent_leaf \in SavedLeaves \cup {NoLeaf}
    /\ consensus \in ConsensusStates
    /\ lookup \in {"-", "Found", "NoLeaf", "Failed", "NoView"}
    /\ previous_used_txns \subseteq Txns
    /\ snapshot \subseteq Txns
    /\ unclaimed_txns \subseteq snapshot
    /\ txns \subseteq unclaimed_txns
    /\ clock \in 0..MaxClock
    /\ Cardinality(broadcast) <= 1
    /\ cur_view \in Views
    /\ consumed \in 0..MaxMsgs
    /\ msg \in Messages \cup {NoMsg}
    /\ stake_casted \in Nat
    /\ qcs \subseteq AllQCs
    /\ Len(timeouts_sent) <= 1


\* ================================================================== claims
IsDA == task = "DALeader"
IsNL == task = "DANextLeader"

\* the vote kind a leader task accumulates
OwnKind == IF IsDA THEN "DA" ELSE "Yes"

\* the loop body is about to handle a vote of the leader's view and kind
HandlingOwnVote ==
    /\ pc = "body"
    /\ msg.type = "Vote"
    /\ msg.kind = OwnKind
    /\ msg.view = cur_view

\* the validation result of the vote being handled, as the leader calls it
PassesValidation(m) ==
    /\ m.key = to_bytes(m.sender)
    /\ IF IsDA
       THEN is_valid_vote(m.key, m.sig, VoteData("DA", BlockCommit(block)), m.token)
       ELSE is_valid_vote(m.key, m.sig, VoteData("Yes", m.commitment), m.token)

RECURSIVE SigStake(_)
\* sum of the vote-token stakes of the signers of a signature map
SigStake(sigs) ==
    IF DOMAIN sigs = {} THEN 0
    ELSE LET k == CHOOSE x \in DOMAIN sigs : TRUE
         IN  sigs[k].token.vote_count + SigStake(MapRemove(sigs, k))

\* the stake counted towards the threshold for commitment c
CountedStake(outcomes, stake, c) ==
    IF IsDA THEN stake
    ELSE IF c \in DOMAIN outcomes THEN outcomes[c].stake_casted ELSE 0

\* the leader returned a certificate it assembled from votes
NewCertificate == result.kind \in {"Some", "NewQC"}

\* ---- C1
\* C1: every certificate a leader returns (the DA certificate of DALeader, a QC
\* DANextLeader built from Yes votes) holds signatures whose vote-token stakes
\* sum to at least the threshold.
C1_CertificateBackedByStake ==
    NewCertificate => SigStake(result.cert.signatures) >= Threshold

\* ---- C2
\* C2: a second vote of the same key for the same commitment in the same view
\* leaves the stake counted towards the threshold unchanged and emits no
\* certificate.
C2_DuplicateVoteAddsNoStake ==
    [][(/\ HandlingOwnVote
        /\ PassesValidation(msg)
        /\ msg.commitment \in DOMAIN vote_outcomes
        /\ msg.key \in DOMAIN (IF IsDA THEN vote_outcomes[msg.commitment]
                                       ELSE vote_outcomes[msg.commitment].vote_map))
       => /\ pc' = "recv"
          /\ CountedStake(vote_outcomes', stake_casted', msg.commitment)
               = CountedStake(vote_outcomes, stake_casted, msg.commitment)]_vars

\* ---- C3
RECURSIVE SumOver(_, _)
SumOver(f, S) ==
    IF S = {} THEN 0
    ELSE LET x == CHOOSE x \in S : TRUE IN f[x] + SumOver(f, S \ {x})

\* every validated vote so far came from a different voter
EachVoterOnce ==
    SumOver([c \in Commitments |-> accepted[c].stake], Commitments)
        = Cardinality(UNION {accepted[c].keys : c \in Commitments})

\* C3: in the DA leader votes for conflicting block commitments are never
\* combined: as long as no single block commitment has collected the threshold
\* in validated votes, no DA certificate is returned.
C3_ConflictingCommitmentsNotCombined ==
    (/\ IsDA
     /\ EachVoterOnce
     /\ \A c \in BlockCommitments : accepted[c].stake < Threshold)
        => result.kind # "Some"

\* ---- C4
\* C4: a QC the next leader builds is for one leaf commitment whose own
\* validated Yes votes reach the threshold; it carries that commitment, the
\* leader's view, is_genesis = false and only signatures of votes for that
\* commitment.
C4_QCPerLeafCommitment ==
    (IsNL /\ result.kind = "NewQC") =>
        LET q == result.cert
            c == q.leaf_commitment
        IN  /\ c \in LeafCommitments
            /\ accepted[c].stake >= Threshold
            /\ q.view_number = cur_view
            /\ q.is_genesis = FALSE
            /\ DOMAIN q.signatures \subseteq accepted[c].keys
            /\ \A k \in DOMAIN q.signatures :
                   validate(from_bytes(k), q.signatures[k].sig,
                            VoteDataCommit(VoteData("Yes", c)))

\* a QC was built although another leaf commitment had collected votes too
C4_Witness ==
    /\ IsNL
    /\ result.kind = "NewQC"
    /\ \E c \in LeafCommitments :
           c # result.cert.leaf_commitment /\ accepted[c].stake > 0

\* ---- C5
\* every message taken so far was a validated DA vote of a fresh voter, of
\* stake 1, over the leader's own block commitment
OnlyVotesForOwnBlock ==
    /\ IsDA
    /\ consumed = Cardinality(accepted[BlockCommit(block)].keys)
    /\ consumed = accepted[BlockCommit(block)].stake

\* C5: happy path: when distinct voters of stake 1 send valid DA votes over the
\* leader's block commitment, the leader returns on the vote that reaches the
\* threshold (the third) a DA certificate of its view, holding those voters'
\* signatures over that commitment, with its block; no further vote is taken.
C5_HappyPathDAC ==
    OnlyVotesForOwnBlock =>
        /\ consumed <= Threshold
        /\ consumed < Threshold => result.kind # "Some"
        /\ consumed = Threshold =>
              /\ pc = "done"
              /\ result.kind = "Some"
              /\ result.cert.view_number = cur_view
              /\ result.block = block
              /\ DOMAIN result.cert.signatures = accepted[BlockCommit(block)].keys
              /\ \A k \in DOMAIN result.cert.signatures :
                     validate(from_bytes(k), result.cert.signatures[k].sig,
                              VoteDataCommit(VoteData("DA", BlockCommit(block))))

\* the third vote arrived and the certificate was returned
C5_Witness ==
    /\ OnlyVotesForOwnBlock
    /\ consumed = 3
    /\ result.kind = "Some"
    /\ cur_view = 1

\* ---- C6
\* C6: when the next leader ends without a leaf commitment reaching the
\* threshold it returns a QC of maximal view among generic_qc and the justify
\* QCs of the Timeout votes it took for its view; it always returns a QC, of a
\* view >= generic_qc.view_number.
C6_TimeoutAggregation ==
    (IsNL /\ pc = "done") =>
        /\ result.kind \in {"NewQC", "MaxQC"}
        /\ result.kind = "MaxQC" =>
              LET seen == {generic_qc} \cup timeout_qcs IN
              /\ result.cert \in seen
              /\ \A q \in seen : q.view_number <= result.cert.view_number
              /\ result.cert.view_number >= generic_qc.view_number

\* two Yes votes for l2 (stake 2 < 3), a Timeout vote carrying QC(view 1, l1),
\* then the interrupt: QC(view 1, l1) is returned
C6_Witness ==
    /\ IsNL
    /\ pc = "done"
    /\ generic_qc = GenesisQC
    /\ accepted[LeafCommit("l2")].stake = 2
    /\ timeout_qcs = {QC(LeafCommit("l1"), 1, EmptyMap, FALSE)}
    /\ Len(timeouts_sent) = 1
    /\ result.kind = "MaxQC"
    /\ result.cert = QC(LeafCommit("l1"), 1, EmptyMap, FALSE)

\* ---- C7
\* C7: a Timeout vote whose encoded key is not the sender's, or whose signature
\* or vote token does not validate, never changes the next leader's qcs.
C7_InvalidTimeoutVoteDropped ==
    [][(/\ IsNL
        /\ pc = "body"
        /\ msg.type = "Vote"
        /\ msg.kind = "Timeout"
        /\ \/ msg.key # to_bytes(msg.sender)
           \/ ~is_valid_vote(msg.key, msg.sig,
                             VoteData("Timeout", ViewCommit(msg.view)), msg.token))
       => qcs' = qcs]_vars

\* ---- C8
\* C8: a DA vote (DALeader) or Yes vote (DANextLeader) whose encoded key is not
\* the sender's or for which is_valid_vote is false leaves the signature maps
\* and the accumulated stake unchanged, and the leader goes on to the next
\* message.
C8_InvalidVoteDropped ==
    [][(HandlingOwnVote /\ ~PassesValidation(msg))
       => /\ pc' = "recv"
          /\ UNCHANGED <<vote_outcomes, stake_casted, result, accepted>>]_vars

\* an invalid vote was handled after some vote had been accumulated
C8_Witness ==
    /\ pc = "recv"
    /\ msg.type = "Vote"
    /\ msg.kind = OwnKind
    /\ msg.view = cur_view
    /\ ~PassesValidation(msg)
    /\ DOMAIN vote_outcomes # {}

\* ---- C9
\* C9: a message (vote, proposal or interrupt) of another view than cur_view is
\* skipped: accumulator, stake and qcs stay as they are and the leader goes on
\* receiving.
C9_ForeignViewSkipped ==
    [][(pc = "body" /\ msg.view # cur_view)
       => /\ pc' = "recv"
          /\ UNCHANGED <<vote_outcomes, stake_casted, qcs, result,
                         timeouts_sent, accepted>>]_vars

\* a message of another view was handled after some vote had been accumulated
C9_Witness ==
    /\ pc = "recv"
    /\ msg.type \in {"Vote", "NextViewInterrupt", "Proposal"}
    /\ msg.view # cur_view
    /\ DOMAIN vote_outcomes # {}

\* ---- C10
HandlingInterrupt == pc = "body" /\ msg.type = "NextViewInterrupt"

\* the task ends: one notification, no certificate formed from votes
EndsOnInterrupt ==
    /\ pc' = "done"
    /\ timeouts_sent' = Append(timeouts_sent, cur_view)
    /\ Len(timeouts_sent') = 1
    /\ result'.kind = (IF IsDA THEN "None" ELSE "MaxQC")

\* C10 as stated: NextViewInterrupt(v') with cur_view <= v' ends the task with
\* exactly one send_next_leader_timeout and no newly formed certificate.
C10_AsStated ==
    [][(HandlingInterrupt /\ cur_view <= msg.view) => EndsOnInterrupt]_vars

\* C10 as amended: NextViewInterrupt(v') ends the task, with exactly one
\* send_next_leader_timeout(cur_view) and no newly formed certificate, exactly
\* when v' = cur_view; an interrupt of another view is skipped and the task
\* keeps receiving; a task that ended takes no further message.
C10_InterruptOfOwnView ==
    [][/\ (HandlingInterrupt /\ msg.view = cur_view) => EndsOnInterrupt
       /\ (HandlingInterrupt /\ msg.view # cur_view)
             => (pc' = "recv" /\ UNCHANGED <<timeouts_sent, result>>)
       /\ pc = "done" => UNCHANGED <<consumed, timeouts_sent, result, pc>>]_vars

\* an interrupt of the leader's view ended the task after other messages
C10_Witness ==
    /\ pc = "done"
    /\ msg.type = "NextViewInterrupt"
    /\ msg.view = cur_view
    /\ Len(timeouts_sent) = 1
    /\ consumed >= 2

\* ---- C11
VoteKinds == {"DA", "Yes", "No", "Timeout", "ViewSyncPreCommit",
              "ViewSyncCommit", "ViewSyncFinalize"}

\* the commitments of the seven vote kinds over one commitment all differ
TagsPairwiseDistinct ==
    \A c \in Commitments : \A k1 \in VoteKinds : \A k2 \in VoteKinds \ {k1} :
        VoteDataCommit(VoteData(k1, c)) # VoteDataCommit(VoteData(k2, c))

\* the vote in hand would pass is_valid_vote as a vote of this kind over c
ValidatesAs(kind, c) == is_valid_vote(msg.key, msg.sig, VoteData(kind, c), msg.token)

\* the DA leader is handling a DA vote of its view whose signature is a Yes
\* signature over its block commitment
HandlingReplayedYes ==
    /\ IsDA
    /\ HandlingOwnVote
    /\ ValidatesAs("Yes", BlockCommit(block))

\* C11: the VoteData commitments of the seven vote kinds over one commitment
\* are pairwise distinct; no signature validates both as a Yes vote and as a
\* DA vote over the same commitment; the DA leader drops a DA vote that carries
\* a Yes signature over its block commitment.
C11_CrossRoleReplayFails ==
    [][/\ TagsPairwiseDistinct
       /\ pc = "body" =>
             \A c \in Commitments : ~(ValidatesAs("Yes", c) /\ ValidatesAs("DA", c))
       /\ HandlingReplayedYes
             => /\ pc' = "recv"
                /\ UNCHANGED <<vote_outcomes, stake_casted, result, accepted>>]_vars

\* the DA leader went through a replayed Yes signature after two valid votes
C11_Witness ==
    /\ IsDA
    /\ pc = "recv"
    /\ msg.type = "Vote"
    /\ msg.kind = "DA"
    /\ msg.view = cur_view
    /\ msg.key = to_bytes(msg.sender)
    /\ ValidatesAs("Yes", BlockCommit(block))
    /\ stake_casted = 2
    /\ consumed = 3

\* ---- C12
\* the bytes are a VoteData commitment, tag and commitment
IsTagged(bytes) == bytes[1] \in {VoteDataTag(k) : k \in VoteKinds}

\* C12: whatever a signing operation signs is a tagged VoteData commitment:
\* the votes of every kind and the proposals the leaders broadcast.
C12_EverySignatureTagged ==
    /\ \A k \in Keys : \A c \in Commitments :
          /\ IsTagged(sign_da_vote(k, c).over)
          /\ IsTagged(sign_yes_vote(k, c).over)
          /\ IsTagged(sign_no_vote(k, c).over)
          /\ IsTagged(sign_timeout_vote(k, cur_view).over)
          /\ IsTagged(sign_precommit_message(k, c).over)
          /\ IsTagged(sign_commit_message(k, c).over)
          /\ IsTagged(sign_finalize_message(k, c).over)
    /\ \A p \in broadcast : IsTagged(p.signature.over)

\* ---- C13
\* the consensus state holds no leaf for the view of qc
ParentMissing(c, qc) ==
    \/ qc.view_number \notin DOMAIN c.state_map
    \/ c.state_map[qc.view_number].kind = "Failed"
    \/ /\ c.state_map[qc.view_number].kind = "Leaf"
       /\ c.state_map[qc.view_number].leaf \notin DOMAIN c.saved_leaves

\* run_view returned None, no proposal went out and no vote was taken
AbortedBeforeProposal ==
    /\ pc = "done"
    /\ result.kind = "None"
    /\ broadcast = {}
    /\ consumed = 0

\* C13: when the parent lookup of DALeader or DAConsensusLeader finds no entry
\* for high_qc.view_number, a Failed entry, or a leaf commitment that is not
\* in saved_leaves, run_view returns None without a proposal broadcast and
\* without a vote taken.
C13_ParentMissingAborts ==
    (lookup # "-" /\ ParentMissing(consensus, high_qc)) => AbortedBeforeProposal

\* the DA leader found the view's leaf commitment but not the leaf
C13_Witness ==
    /\ IsDA
    /\ pc = "done"
    /\ lookup # "-"
    /\ 0 \in DOMAIN consensus.state_map
    /\ consensus.state_map[0].kind = "Leaf"
    /\ consensus.saved_leaves # EmptyMap
    /\ ParentMissing(consensus, high_qc)

\* ---- C14
\* C14: when the parent leaf holds only a state commitment, DALeader and
\* DAConsensusLeader return None: no proposal is broadcast, no wait for
\* transactions is started (no clock reading, no copy of the pool) and no vote
\* is taken.
C14_NoParentStateAborts ==
    (lookup = "Found" /\ parent_leaf.state.side = "Right")
        => /\ AbortedBeforeProposal
           /\ clock = 0
           /\ snapshot = {}
           /\ leaf = NoLeaf

\* the quorum leader found a parent leaf that holds a state commitment
C14_Witness ==
    /\ task = "DAConsensusLeader"
    /\ pc = "done"
    /\ lookup = "Found"
    /\ parent_leaf.state.side = "Right"
    /\ ~high_qc.is_genesis

\* ---- C15
\* C15: when starting_state.append fails in the DA leader (the step after the
\* block is built that does not lead to the broadcast), run_view returns None
\* and takes no vote.
C15_CannotAppendAborts ==
    [][(IsDA /\ pc = "append" /\ pc' # "broadcast")
       => (pc' = "done" /\ result'.kind = "None")]_vars

\* ---- C16
\* C16: while the parent resolves and the pool's change stream stays open,
\* wait_for_transactions does not end in None: every pass of its loop either
\* waits for the pool (fewer than min_transactions candidates and time left)
\* or returns the candidates of the pool (enough of them, or the time used up).
C16_WaitNeverAbortsOnTime ==
    [][(IsDA /\ pc = "wait_loop")
       => \/ /\ pc' = "wait_recv"
             /\ Cardinality(unclaimed_txns') < MinTransactions
             /\ clock' < ProposeMaxRoundTime
          \/ /\ pc' \in {"pack", "append"}
             /\ txns' = snapshot' \ previous_used_txns
             /\ \/ Cardinality(txns') >= MinTransactions
                \/ clock' >= ProposeMaxRoundTime]_vars

\* ---- C17
\* the candidates wait_for_transactions returned
Candidates == snapshot \ previous_used_txns

\* C17: while the DA leader packs and when it has packed, its block holds
\* exactly the candidates tried so far for which add_transaction_raw succeeded
\* and validate_block passed; the candidates are the transactions of the pool
\* copy that are not in the parent leaf's block; every candidate is tried.
C17_BlockPacking ==
    (IsDA /\ pc \in {"pack", "append", "broadcast"}) =>
        /\ previous_used_txns = parent_leaf.deltas
        /\ block \subseteq Candidates
        /\ block = {t \in Candidates : checks[t] = "ok"}
        /\ \A t \in Txns \ Candidates : checks[t] = "untried"
        /\ txns = {t \in Candidates : checks[t] = "untried"}
        /\ pc \in {"append", "broadcast"} => txns = {}

\* of two candidates one failed validate_block and the other was packed, and
\* a transaction of the parent's block was in the pool
C17_Witness ==
    /\ IsDA
    /\ pc = "append"
    /\ \E t \in Candidates : checks[t] = "not valid"
    /\ \E t \in Candidates : checks[t] = "ok"
    /\ block # {}

\* ---- C18
IsCL == task = "DAConsensusLeader"

\* C18: a leaf the quorum leader builds on a non-genesis high_qc has
\* justify_qc.leaf_commitment = parent_commitment.
C18_JustifyQCIsParent ==
    (IsCL /\ leaf # NoLeaf /\ ~leaf.justify_qc.is_genesis)
        => leaf.justify_qc.leaf_commitment = leaf.parent_commitment

\* ---- C19
\* C19: the leaf the quorum leader builds has height = parent.height + 1 and
\* view_number = cur_view.
C19_LeafHeightAndView ==
    (IsCL /\ leaf # NoLeaf)
        => /\ leaf.height = parent_leaf.height + 1
           /\ leaf.view_number = cur_view

\* ---- C20
\* C20: DAConsensusLeader::run_view returns Some(high_qc) exactly when it
\* broadcast one CommitmentProposal, of its view, over the commitment of its
\* block, justified by high_qc, carrying its DA certificate and the commitment
\* of the parent state appended with the block; it returns None, with no
\* proposal delivered, when the parent is missing or holds no state, and
\* whenever else it does not return high_qc.
C20_QuorumLeaderOutcome ==
    (IsCL /\ pc = "done") =>
        /\ result.kind \in {"HighQC", "None"}
        /\ result.kind = "HighQC" <=> broadcast # {}
        /\ result.kind = "HighQC" =>
              /\ result.cert = high_qc
              /\ lookup = "Found"
              /\ parent_leaf.state.side = "Left"
              /\ \A p \in broadcast :
                    /\ broadcast = {p}
                    /\ p.type = "CommitmentProposal"
                    /\ p.view_number = cur_view
                    /\ p.block_commitment = BlockCommit(block)
                    /\ p.justify_qc = high_qc
                    /\ p.dac = cert
                    /\ p.state_commitment =
                          StateCommit(Appended(parent_leaf.state.value, block, cur_view))
        /\ (ParentMissing(consensus, high_qc) \/ parent_leaf.state.side = "Right")
              => result.kind = "None"

\* the quorum leader proposed a non-empty block on a non-genesis high_qc
C20_Witness ==
    /\ IsCL
    /\ pc = "done"
    /\ result.kind = "HighQC"
    /\ ~high_qc.is_genesis
    /\ block = {"t1"}
    /\ broadcast # {}

\* ==================================================== the other components
\* Every variable of a leader task.
leader_vars == <<fields, pc, block, proposal_vars, broadcast, vote_vars, result,
                 consensus_guard, env>>

\* No leader task is looked at.
LeaderAbsent ==
    /\ task = "-"
    /\ pc = "done"
    /\ cur_view = 0
    /\ high_qc = GenesisQC
    /\ cert = NoCert
    /\ block = None
    /\ generic_qc = GenesisQC
    /\ consensus = NoConsensus
    /\ consensus_after = NoConsensus
    /\ parent_leaf = NoLeaf
    /\ lookup = "-"
    /\ previous_used_txns = {}
    /\ snapshot = {}
    /\ unclaimed_txns = {}
    /\ clock = 0
    /\ txns = {}
    /\ checks = NoChecks
    /\ broadcast = {}
    /\ leaf = NoLeaf
    /\ vote_outcomes = EmptyMap
    /\ stake_casted = 0
    /\ qcs = {}
    /\ msg = NoMsg
    /\ consumed = 0
    /\ timeouts_sent = <<>>
    /\ result = Pending
    /\ accepted = NoAccepted
    /\ timeout_qcs = {}
    /\ consensus_guard = FALSE
    /\ env = Open

\* ------------------------------------------- validation of a certificate
\* AssembledSignature: Yes, No, DA and the three ViewSync variants carry an
\* aggregated signature (the keys that signed and the bytes they signed),
\* Genesis() carries nothing.
AssembledSignature(variant, signers, bytes) ==
    [variant |-> variant, signers |-> signers, over |-> bytes]
AssembledGenesis == AssembledSignature("Genesis", {}, <<"-", NoCommitment>>)

\* SignatureKey::check: the signers signed these bytes and their stake
\* reaches the threshold of the public parameter
check(pp, bytes, sig) ==
    /\ sig.over = bytes
    /\ sig.signers \subseteq DOMAIN pp.stake_table
    /\ SumOver(pp.stake_table, sig.signers) >= pp.threshold

\* QuorumCertificate (certificate.rs)
QuorumCert(leaf_commitment, view_number, signatures, is_genesis) ==
    [type |-> "QuorumCertificate", leaf_commitment |-> leaf_commitment,
     view_number |-> view_number, signatures |-> signatures,
     is_genesis |-> is_genesis]

\* QuorumCertificate::genesis
QuorumCertGenesis == QuorumCert(LeafCommit("fake"), 0, AssembledGenesis, TRUE)

\* DACertificate (certificate.rs): leaf_commitment() answers with the block
\* commitment and is_genesis() with false
DACert(view_number, signatures, block_commitment) ==
    [type |-> "DACertificate", leaf_commitment |-> block_commitment,
     view_number |-> view_number, signatures |-> signatures,
     is_genesis |-> FALSE]

\* ConsensusExchange::is_valid_cert, the default method both QuorumExchange
\* and CommitteeExchange use; of the exchange it reads the stake table and
\* the success threshold of the membership
is_valid_cert(qc, commit) ==
    IF qc.is_genesis /\ qc.view_number = 0 THEN TRUE
    ELSE LET leaf_commitment == qc.leaf_commitment IN
         IF leaf_commitment # commit THEN FALSE
         ELSE LET variant == qc.signatures.variant
                  real_qc_pp == [stake_table |-> StakeTable,
                                 threshold |-> Threshold]
              IN  IF variant \in {"DA", "Yes", "No"}
                  THEN LET real_commit ==
                               VoteDataCommit(VoteData(variant, leaf_commitment))
                       IN  check(real_qc_pp, real_commit, qc.signatures)
                  ELSE IF variant = "Genesis" THEN TRUE
                  ELSE FALSE

\* The commitments an exchange decides on: leaves for the quorum, blocks for
\* the DA committee.
ExchangeCommitments(exchange) ==
    IF exchange = "Quorum" THEN {LeafCommit("fake"), LeafCommit("l1")}
    ELSE {BlockCommit({}), BlockCommit({"t1"})}

\* The certificates an exchange may be handed: of its certificate type, of
\* any view, with an assembled signature of any variant, made by a quorum or
\* by less, over a commitment tagged as a vote of any kind.
Certificates(exchange) ==
    LET sigs == {AssembledGenesis} \cup
                {AssembledSignature(variant, signers, VoteDataCommit(VoteData(k, c))) :
                    variant \in {"Yes", "No", "DA", "ViewSyncPreCommit",
                                 "ViewSyncCommit", "ViewSyncFinalize"},
                    signers \in {{"A", "B", "C"}, {"A", "B"}},
                    k \in {"DA", "Yes", "No", "ViewSyncCommit"},
                    c \in ExchangeCommitments(exchange)}
    IN  IF exchange = "Quorum"
        THEN {QuorumCert(c, v, sig, gen) :
                 c \in ExchangeCommitments(exchange), v \in Views,
                 sig \in sigs, gen \in BOOLEAN}
        ELSE {DACert(v, sig, c) :
                 v \in Views, sig \in sigs, c \in ExchangeCommitments(exchange)}

\* an exchange that has validated nothing yet
VerifierInit ==
    /\ LeaderAbsent
    /\ network = Absent
    /\ channel = Absent
    /\ \E exchange \in {"Quorum", "Committee", "ViewSync"} :
          verifier = [exchange |-> exchange, pc |-> "idle",
                      qc |-> QuorumCertGenesis, commit |-> LeafCommit("fake"),
                      valid |-> FALSE]

\* the exchange is handed a certificate and the commitment it is expected to
\* be over, and validates it
ValidateCert ==
    /\ verifier.pc = "idle"
    /\ verifier.exchange \in {"Quorum", "Committee"}
    /\ \E qc \in Certificates(verifier.exchange),
          commit \in ExchangeCommitments(verifier.exchange) :
          verifier' = [exchange |-> verifier.exchange, pc |-> "validated",
                       qc |-> qc, commit |-> commit,
                       valid |-> is_valid_cert(qc, commit)]
    /\ UNCHANGED <<leader_vars, network, channel>>

\* the certificate has been validated
Validated == verifier.pc = "validated"
\* it is marked genesis or carries the Genesis variant
GenesisLike(qc) == qc.is_genesis \/ qc.signatures.variant = "Genesis"

\* C21: a certificate that is marked genesis or carries the Genesis variant
\* is accepted only at the genesis view; at any other view it is rejected,
\* whatever commitment is expected.
C21_GenesisOnlyAtGenesisView ==
    (Validated /\ GenesisLike(verifier.qc) /\ verifier.valid)
        => verifier.qc.view_number = 0

\* the variants that do not belong to the role of the exchange
ViewSyncVariants == {"ViewSyncPreCommit", "ViewSyncCommit", "ViewSyncFinalize"}
ForeignVariants(exchange) ==
    IF exchange = "Quorum" THEN {"DA"} \cup ViewSyncVariants
    ELSE {"Yes", "No"} \cup ViewSyncVariants

\* C22: a certificate whose assembled-signature variant does not match the
\* role of the verifying exchange is rejected, also when its aggregated
\* signature verifies over the commitment tagged with its own variant.
C22_ForeignVariantRejected ==
    (Validated /\ verifier.qc.signatures.variant \in ForeignVariants(verifier.exchange))
        => ~verifier.valid

\* ------------------------------------------------------- the network task
\* NetworkTaskKind
NetworkTaskKinds == {"Quorum", "Committee", "ViewSync"}

\* Membership::get_leader: the keys take turns, one view each
get_leader(view_number) ==
    LET order == <<"A", "B", "C", "D">> IN order[(view_number % Len(order)) + 1]

\* An event of the event stream, or the kind of a wire message: its variant
\* and what it carries (a view or round, a relay, a transaction, the key of
\* the sender or signer).
Item(type, view, relay, tx, key) ==
    [type |-> type, view |-> view, relay |-> relay, tx |-> tx, key |-> key]
NoItem == Item("-", 0, 0, "-", "-")

\* SequencingHotShotEvent::ViewChange and Shutdown
ControlEvents ==
    {Item("ViewChange", v, 0, "-", "-") : v \in Views}
    \cup {Item("Shutdown", 0, 0, "-", "-")}

\* SequencingHotShotEvent: the variants the network task sends for (a
\* view-sync vote names relay 0 or 1), the two above, and one of those
\* consumed elsewhere
Events ==
    {Item(t, v, 0, "-", k) :
        t \in {"QuorumProposalSend", "QuorumVoteSend", "DAProposalSend",
               "DAVoteSend", "DACSend", "ViewSyncCertificateSend"},
        v \in Views, k \in {"A", "B"}}
    \cup {Item("ViewSyncVoteSend", round, relay, "-", "B") :
            round \in Views, relay \in 0..1}
    \cup {Item("TransactionSend", 0, 0, tx, "-") : tx \in Txns}
    \cup ControlEvents
    \cup {Item("QuorumVoteRecv", v, 0, "-", "B") : v \in Views}

\* NetworkTaskState::quorum_filter
quorum_filter(event) ==
    event.type \in {"QuorumProposalSend", "QuorumVoteSend", "Shutdown", "ViewChange"}

\* NetworkTaskState::committee_filter
committee_filter(event) ==
    event.type \in {"DAProposalSend", "DAVoteSend", "DACSend", "Shutdown",
                    "ViewChange", "TransactionSend"}

\* mutant: view changes are not passed on to the view-sync task
view_sync_filter_NoViewChange(event) ==
    event.type \in {"ViewSyncVoteSend", "ViewSyncCertificateSend", "Shutdown"}

\* NetworkTaskState::view_sync_filter
view_sync_filter(event) ==
    event.type \in {"ViewSyncVoteSend", "ViewSyncCertificateSend", "Shutdown",
                    "ViewChange"}

\* NetworkTaskState::filter
filter(task_kind, event) ==
    CASE task_kind = "Quorum" -> quorum_filter(event)
      [] task_kind = "Committee" -> committee_filter(event)
      [] task_kind = "ViewSync" -> view_sync_filter(event)

\* MessageKind: the wire variant wrapping what an event carries
MessageKind(type, of) == Item(type, of.view, of.relay, of.tx, of.key)
\* DataMessage::SubmitTransaction(transaction, view)
SubmitTransaction(tx, view) == Item("SubmitTransaction", view, 0, tx, "-")
\* Message { sender, kind }
Message(sender, kind) == [sender |-> sender, kind |-> kind]

\* mutant: every vote goes to the leader of its own view
VoteRecipient_CurrentLeader(vote) == get_leader(vote.view)

\* handle_event, the recipient of a vote: the leader of the next view for a
\* quorum vote, of the vote's view for a DA vote, of round + relay for a
\* view-sync vote
VoteRecipient(vote) ==
    CASE vote.type = "QuorumVoteSend" -> get_leader(vote.view + 1)
      [] vote.type = "DAVoteSend" -> get_leader(vote.view)
      [] vote.type = "ViewSyncVoteSend" -> get_leader(vote.view + vote.relay)

\* nll_todo(): a function returning a value of whatever type is asked for
\* has none to return; the call does not come back
nll_todo == "panic"

\* what the match of handle_event decides
Decision(decision, sender, kind, transmit_type, recipient) ==
    [decision |-> decision, sender |-> sender, kind |-> kind,
     transmit_type |-> transmit_type, recipient |-> recipient]
Transmit(sender, kind, transmit_type, recipient) ==
    IF sender = nll_todo
    THEN Decision("panic", "-", NoItem, "-", None)
    ELSE Decision("send", sender, kind, transmit_type, recipient)

\* NetworkTaskState::handle_event, the match on the event
handle_event_match(view, event) ==
    CASE event.type = "QuorumProposalSend" ->
            Transmit(event.key, MessageKind("Proposal", event), "Broadcast", None)
      [] event.type = "QuorumVoteSend" ->
            Transmit(event.key, MessageKind("Vote", event), "Direct",
                     VoteRecipient(event))
      [] event.type = "DAProposalSend" ->
            Transmit(event.key, MessageKind("DAProposal", event), "Broadcast", None)
      [] event.type = "DAVoteSend" ->
            Transmit(event.key, MessageKind("DAVote", event), "Direct",
                     VoteRecipient(event))
      [] event.type = "DACSend" ->
            Transmit(event.key, MessageKind("DACertificate", event), "Broadcast", None)
      [] event.type = "ViewSyncCertificateSend" ->
            Transmit(event.key, MessageKind("ViewSyncCertificate", event),
                     "Broadcast", None)
      [] event.type = "ViewSyncVoteSend" ->
            Transmit(event.key, MessageKind("ViewSyncVote", event), "Direct",
                     VoteRecipient(event))
      [] event.type = "TransactionSend" ->
            Transmit(nll_todo, SubmitTransaction(event.tx, view), "Broadcast", None)
      [] event.type = "ViewChange" -> Decision("ViewChange", "-", NoItem, "-", None)
      [] event.type = "Shutdown" -> Decision("ShutDown", "-", NoItem, "-", None)
      [] OTHER -> Decision("None", "-", NoItem, "-", None)

\* The wire messages that can arrive: the eight variants the task knows and
\* a general message it does not (InternalTrigger).
WireMessages ==
    {Message(k, Item(t, v, 0, "-", k)) :
        t \in {"Proposal", "Vote", "ViewSyncVote", "ViewSyncCertificate",
               "InternalTrigger", "DAProposal", "DAVote", "DACertificate"},
        v \in Views, k \in {"A", "B"}}
    \cup {Message("A", SubmitTransaction(tx, v)) : tx \in Txns, v \in Views}

\* mutant: a DA vote is published as a quorum vote
handle_message_match_VotesAlike(message) ==
    LET kind == message.kind IN
    CASE kind.type = "Proposal" ->
            <<Item("QuorumProposalRecv", kind.view, kind.relay, kind.tx, message.sender)>>
      [] kind.type = "Vote" -> <<MessageKind("QuorumVoteRecv", kind)>>
      [] kind.type = "ViewSyncVote" -> <<MessageKind("ViewSyncVoteRecv", kind)>>
      [] kind.type = "ViewSyncCertificate" ->
            <<MessageKind("ViewSyncCertificateRecv", kind)>>
      [] kind.type = "DAProposal" ->
            <<Item("DAProposalRecv", kind.view, kind.relay, kind.tx, message.sender)>>
      [] kind.type = "DAVote" -> <<MessageKind("QuorumVoteRecv", kind)>>
      [] kind.type = "DACertificate" -> <<MessageKind("DACRecv", kind)>>
      [] kind.type = "SubmitTransaction" ->
            <<Item("TransactionRecv", 0, 0, kind.tx, "-")>>
      [] OTHER -> <<>>

\* NetworkTaskState::handle_message, the match on the message: the event to
\* publish, none for a general message of another variant.  A proposal is
\* published with the sender of the message; the view of a transaction is
\* dropped.
handle_message_match(message) ==
    LET kind == message.kind IN
    CASE kind.type = "Proposal" ->
            <<Item("QuorumProposalRecv", kind.view, kind.relay, kind.tx, message.sender)>>
      [] kind.type = "Vote" -> <<MessageKind("QuorumVoteRecv", kind)>>
      [] kind.type = "ViewSyncVote" -> <<MessageKind("ViewSyncVoteRecv", kind)>>
      [] kind.type = "ViewSyncCertificate" ->
            <<MessageKind("ViewSyncCertificateRecv", kind)>>
      [] kind.type = "DAProposal" ->
            <<Item("DAProposalRecv", kind.view, kind.relay, kind.tx, message.sender)>>
      [] kind.type = "DAVote" -> <<MessageKind("DAVoteRecv", kind)>>
      [] kind.type = "DACertificate" -> <<MessageKind("DACRecv", kind)>>
      [] kind.type = "SubmitTransaction" ->
            <<Item("TransactionRecv", 0, 0, kind.tx, "-")>>
      [] OTHER -> <<>>

\* NetworkTaskState with what its last call did: the call, the event or the
\* kind of the message it was given, the calls of the channel, the events
\* published, whether the channel failed, what the call returned; and the view
\* of the last ViewChange handled
NetworkTaskState(task_kind, view, call, given, sent, published, returned, changed) ==
    [task_kind |-> task_kind, view |-> view, call |-> call, given |-> given,
     sent |-> sent, published |-> published, failed |-> FALSE,
     returned |-> returned, last_view_change |-> changed]

NetworkInit ==
    /\ LeaderAbsent
    /\ verifier = Absent
    /\ channel = Absent
    /\ \E task_kind \in NetworkTaskKinds :
          network = NetworkTaskState(task_kind, 0, "-", NoItem, <<>>, <<>>, "-", 0)

\* NetworkTaskState::handle_event of a task that has neither completed nor
\* panicked, on an event its filter lets through; the message is handed to
\* the channel in one call of direct_message or broadcast_message, which
\* takes it or fails, and a failure is a panic (expect)
HandleEvent ==
    /\ network.returned \in {"-", "None", "()"}
    /\ \E event \in Events, ok \in BOOLEAN :
          /\ filter(network.task_kind, event)
          /\ LET d == handle_event_match(network.view, event)
                 message == Message(d.sender, d.kind)
                 state == [network EXCEPT !.call = "handle_event",
                                          !.given = event,
                                          !.sent = <<>>,
                                          !.published = <<>>,
                                          !.failed = FALSE]
             IN  network' =
                   CASE d.decision = "send" ->
                          [state EXCEPT
                              !.sent = <<[transmit_type |-> d.transmit_type,
                                          message |-> message,
                                          recipient |-> d.recipient]>>,
                              !.failed = ~ok,
                              !.returned = IF ok THEN "None" ELSE "panic"]
                     [] d.decision = "panic" -> [state EXCEPT !.returned = "panic"]
                     [] d.decision = "ViewChange" ->
                          [state EXCEPT !.view = event.view,
                                        !.last_view_change = event.view,
                                        !.returned = "None"]
                     [] d.decision = "ShutDown" ->
                          [state EXCEPT !.returned = "ShutDown"]
                     [] OTHER -> [state EXCEPT !.returned = "None"]
    /\ UNCHANGED <<leader_vars, verifier, channel>>

\* NetworkTaskState::handle_message on a message from the network
HandleMessage ==
    /\ network.returned \in {"-", "None", "()"}
    /\ \E message \in WireMessages :
          network' = [network EXCEPT !.call = "handle_message",
                                     !.given = message.kind,
                                     !.sent = <<>>,
                                     !.failed = FALSE,
                                     !.published = handle_message_match(message),
                                     !.returned = "()"]
    /\ UNCHANGED <<leader_vars, verifier, channel>>

NetworkNext ==
    \/ HandleEvent
    \/ HandleMessage

NetworkSpec == NetworkInit /\ [][NetworkNext]_vars

\* the last call was handle_event on an event of one of these variants
HandledEvent(types) ==
    network.call = "handle_event" /\ network.given.type \in types

\* C23: a quorum vote of view v is sent as a direct message to
\* get_leader(v + 1), a DA vote of view v to get_leader(v), a view-sync vote
\* to get_leader(round + relay): one call of direct_message per event and no
\* broadcast.
C23_VotesSentToLeader ==
    HandledEvent({"QuorumVoteSend", "DAVoteSend", "ViewSyncVoteSend"}) =>
        LET vote == network.given
            leader == IF vote.type = "QuorumVoteSend" THEN get_leader(vote.view + 1)
                      ELSE IF vote.type = "DAVoteSend" THEN get_leader(vote.view)
                      ELSE get_leader(vote.view + vote.relay)
            wire == IF vote.type = "QuorumVoteSend" THEN "Vote"
                    ELSE IF vote.type = "DAVoteSend" THEN "DAVote"
                    ELSE "ViewSyncVote"
        IN  /\ Len(network.sent) = 1
            /\ network.sent[1].transmit_type = "Direct"
            /\ network.sent[1].recipient = leader
            /\ network.sent[1].message =
                   Message(vote.key, Item(wire, vote.view, vote.relay, "-", vote.key))

\* a quorum vote of view 1 went to the leader of view 2, and a view-sync vote
\* of round 1 and relay 1 as well
C23_Witness ==
    /\ HandledEvent({"QuorumVoteSend", "ViewSyncVoteSend"})
    /\ network.given.view = 1
    /\ network.given.type = "ViewSyncVoteSend" => network.given.relay = 1
    /\ network.sent # <<>>
    /\ network.sent[1].recipient = "C"
    /\ network.returned = "None"

\* C24: for QuorumProposalSend, DAProposalSend, DACSend,
\* ViewSyncCertificateSend and TransactionSend there is exactly one broadcast
\* of the corresponding wire message and, the channel taking it, handle_event
\* returns None; a transaction is broadcast as SubmitTransaction with the
\* view of the last ViewChange.
C24_BroadcastOnce ==
    (HandledEvent({"QuorumProposalSend", "DAProposalSend", "DACSend",
                   "ViewSyncCertificateSend", "TransactionSend"})
     /\ ~network.failed) =>
        LET event == network.given
            wire == CASE event.type = "QuorumProposalSend" -> "Proposal"
                      [] event.type = "DAProposalSend" -> "DAProposal"
                      [] event.type = "DACSend" -> "DACertificate"
                      [] event.type = "ViewSyncCertificateSend" -> "ViewSyncCertificate"
                      [] event.type = "TransactionSend" -> "SubmitTransaction"
        IN  /\ Len(network.sent) = 1
            /\ network.sent[1].transmit_type = "Broadcast"
            /\ network.sent[1].message.kind.type = wire
            /\ event.type = "TransactionSend" =>
                   /\ network.sent[1].message.kind.tx = event.tx
                   /\ network.sent[1].message.kind.view = network.last_view_change
            /\ network.returned = "None"

\* C25: each of the three filters lets Shutdown and ViewChange through; on
\* Shutdown handle_event returns the ShutDown completion and sends nothing,
\* on ViewChange(v) it sets the view to v, sends nothing and returns None.
C25_ShutdownAndViewChange ==
    /\ \A task_kind \in NetworkTaskKinds, event \in ControlEvents :
          filter(task_kind, event)
    /\ HandledEvent({"Shutdown"}) =>
          /\ network.sent = <<>>
          /\ network.published = <<>>
          /\ network.returned = "ShutDown"
    /\ HandledEvent({"ViewChange"}) =>
          /\ network.view = network.given.view
          /\ network.sent = <<>>
          /\ network.published = <<>>
          /\ network.returned = "None"

\* the view-sync task was shut down after a ViewChange had moved it to view 2
C25_Witness ==
    /\ network.task_kind = "ViewSync"
    /\ HandledEvent({"Shutdown"})
    /\ network.view = 2
    /\ network.returned = "ShutDown"

\* the event a wire message of a known variant is published as
RecvEvent(type) ==
    CASE type = "Proposal" -> "QuorumProposalRecv"
      [] type = "Vote" -> "QuorumVoteRecv"
      [] type = "ViewSyncVote" -> "ViewSyncVoteRecv"
      [] type = "ViewSyncCertificate" -> "ViewSyncCertificateRecv"
      [] type = "DAProposal" -> "DAProposalRecv"
      [] type = "DAVote" -> "DAVoteRecv"
      [] type = "DACertificate" -> "DACRecv"
      [] type = "SubmitTransaction" -> "TransactionRecv"
      [] OTHER -> "-"

\* C26: handle_message publishes exactly one event for a wire message of a
\* known variant (Proposal as QuorumProposalRecv, Vote as QuorumVoteRecv,
\* ViewSyncVote as ViewSyncVoteRecv, ViewSyncCertificate as
\* ViewSyncCertificateRecv, DAProposal as DAProposalRecv, DAVote as
\* DAVoteRecv, DACertificate as DACRecv, SubmitTransaction as
\* TransactionRecv) whatever the kind of the task, and none for a general
\* message of another variant.
C26_OneEventPerMessage ==
    network.call = "handle_message" =>
        LET kind == network.given IN
        /\ network.sent = <<>>
        /\ IF RecvEvent(kind.type) = "-" THEN network.published = <<>>
           ELSE /\ Len(network.published) = 1
                /\ network.published[1].type = RecvEvent(kind.type)
                /\ network.published[1].tx = kind.tx
                /\ kind.type # "SubmitTransaction" =>
                       /\ network.published[1].view = kind.view
                       /\ network.published[1].key = kind.key

\* the view-sync task published a DA vote it received
C26_Witness ==
    /\ network.task_kind = "ViewSync"
    /\ network.call = "handle_message"
    /\ network.given.type = "DAVote"
    /\ network.published # <<>>
    /\ network.published[1].type = "DAVoteRecv"

\* ------------------------------------------ the leader tasks and their locks
\* the task is suspended in api.send_broadcast_message
SuspendedInSend == pc = "broadcast"

\* C27: a leader task suspended in a broadcast or send holds no lock on the
\* shared consensus state.
C27_NoConsensusLockAcrossSend ==
    SuspendedInSend => ~consensus_guard

\* C28: the leader tasks only read the shared consensus state: what a read
\* guard leaves behind (state_map, saved_leaves, high_qc) is what it found,
\* and the vote collection does not touch the consensus state at all.
C28_ConsensusOnlyRead ==
    /\ consensus_after = consensus
    /\ [][/\ consensus_after' = consensus'
          /\ pc \in {"recv", "body"} => UNCHANGED <<consensus, consensus_after>>]_vars

\* a parent was found under the read lock
C28_Witness ==
    /\ lookup = "Found"
    /\ pc \in {"wait", "propose"}
    /\ consensus.saved_leaves # EmptyMap
    /\ consensus.high_qc # GenesisQC

\* C30: a dropped mempool or vote channel ends the task without a retry.  An
\* error of the mempool change stream while the DA leader waits makes
\* run_view return None with nothing broadcast; a closed vote channel makes
\* DALeader.run_view return None and DANextLeader.run_view leave its loop
\* and return a QC of qcs of the highest view; a task that has returned
\* receives nothing more.
C30_DroppedChannelAborts ==
    [][/\ (IsDA /\ pc = "wait_recv" /\ pc' = "done") =>
              /\ result'.kind = "None"
              /\ broadcast' = {}
              /\ consumed' = 0
       /\ (IsDA /\ pc = "recv" /\ pc' = "done") =>
              /\ result'.kind = "None"
              /\ UNCHANGED <<consumed, timeouts_sent, broadcast>>
       /\ (IsNL /\ pc = "recv" /\ pc' = "done") =>
              /\ result'.kind = "MaxQC"
              /\ result'.cert \in qcs
              /\ \A q \in qcs : q.view_number <= result'.cert.view_number
              /\ UNCHANGED <<qcs, consumed, timeouts_sent>>
       /\ pc = "done" => UNCHANGED <<pc, consumed, result>>]_vars

\* the vote channel was closed on a next leader that had taken a Timeout vote
\* with a QC of a higher view, and it was not interrupted
C30_Witness ==
    /\ IsNL
    /\ pc = "done"
    /\ result.kind = "MaxQC"
    /\ timeouts_sent = <<>>
    /\ result.cert.view_number > generic_qc.view_number

\* ------------------------------------------------ a shared vote channel
\* Two leader tasks constructed with the same vote_collection_chan, an
\* Arc<Mutex<Receiver>>: each locks the mutex, then receives in a loop until
\* it returns or the channel is closed.
SharingTasks == {"DALeader", "DANextLeader"}

\* mutant: the mutex is locked for one receive at a time
GuardAfter_PerReceive(t, at) == None

\* `let lock = self.vote_collection_chan.lock().await`: the guard is a local
\* of run_view and is dropped when run_view returns
GuardAfter(t, at) == IF at = "done" THEN None ELSE t

\* holder: the task holding the mutex, None when it is free; at: where each
\* task stands ("start": before lock().await, "recv": in the loop, "done":
\* returned); head: the next message of the channel; consumers: who
\* received which message; delivered: what the message was
ChannelInit ==
    /\ LeaderAbsent
    /\ verifier = Absent
    /\ network = Absent
    /\ channel = [holder |-> None,
                  at |-> [t \in SharingTasks |-> "start"],
                  head |-> 1,
                  consumers |-> [i \in 1..MaxMsgs |-> {}],
                  delivered |-> [i \in 1..MaxMsgs |-> "-"]]

\* vote_collection_chan.lock().await returns once the mutex is free
LockChannel(t) ==
    /\ channel.at[t] = "start"
    /\ channel.holder = None
    /\ channel' = [channel EXCEPT !.holder = t, !.at[t] = "recv"]
    /\ UNCHANGED <<leader_vars, verifier, network>>

\* lock.recv().await returns Ok(msg): the message is taken from the channel;
\* the body of the loop returns on a NextViewInterrupt, and on a vote it
\* goes on to the next receive or returns (threshold reached)
RecvShared(t) ==
    /\ channel.at[t] = "recv"
    /\ channel.head <= MaxMsgs
    /\ \E m \in {"Vote", "NextViewInterrupt"}, at \in {"recv", "done"} :
          /\ m = "NextViewInterrupt" => at = "done"
          /\ channel' = [channel EXCEPT
                         !.consumers[channel.head] = @ \cup {t},
                         !.delivered[channel.head] = m,
                         !.head = @ + 1,
                         !.at[t] = at,
                         !.holder = GuardAfter(t, at)]
    /\ UNCHANGED <<leader_vars, verifier, network>>

\* lock.recv().await returns Err: the loop ends and run_view returns
ClosedShared(t) ==
    /\ channel.at[t] = "recv"
    /\ channel' = [channel EXCEPT !.at[t] = "done",
                                  !.holder = GuardAfter(t, "done")]
    /\ UNCHANGED <<leader_vars, verifier, network>>

ChannelNext ==
    \/ \E t \in SharingTasks : LockChannel(t)
    \/ \E t \in SharingTasks : RecvShared(t)
    \/ \E t \in SharingTasks : ClosedShared(t)

ChannelSpec == ChannelInit /\ [][ChannelNext]_vars

\* C29: a leader task holds the mutex of the vote channel from before its
\* first receive until run_view returns, so the receives of two tasks
\* sharing the channel do not interleave and every message is received by
\* exactly one of them.
C29_OneConsumerAtATime ==
    /\ \A t \in SharingTasks :
          /\ channel.at[t] = "recv" => channel.holder = t
          /\ channel.at[t] = "start" =>
                 \A i \in 1..MaxMsgs : t \notin channel.consumers[i]
    /\ \A i \in 1..MaxMsgs :
          Cardinality(channel.consumers[i]) = IF i < channel.head THEN 1 ELSE 0
    /\ \A i, j, k \in 1..MaxMsgs :
          (i < j /\ j < k /\ k < channel.head
           /\ channel.consumers[i] = channel.consumers[k])
              => channel.consumers[j] = channel.consumers[i]

\* both tasks have run, each received messages of the channel
C29_Witness ==
    /\ \A t \in SharingTasks : channel.at[t] = "done"
    /\ \A t \in SharingTasks : \E i \in 1..MaxMsgs : channel.consumers[i] = {t}
    /\ channel.head = MaxMsgs + 1

\* ================================================ the tasks of one node in turn
\* Data flow per view: DA leader => DAC => quorum leader => commitment proposal
\* => quorum votes => QC => the view advances.  The code that starts the tasks
\* is not in the files at hand; the three steps below follow that sentence.

\* a task starts its vote collection with empty locals
NewCollection ==
    /\ vote_outcomes' = EmptyMap
    /\ stake_casted' = 0
    /\ msg' = NoMsg
    /\ timeouts_sent' = <<>>
    /\ accepted' = NoAccepted
    /\ timeout_qcs' = {}

\* DAC => quorum leader: the certificate and the block DALeader::run_view
\* returned become the fields cert and block of a DAConsensusLeader of the
\* same view with the same high_qc
StartQuorumLeader ==
    /\ task = "DALeader"
    /\ pc = "done"
    /\ result.kind = "Some"
    /\ task' = "DAConsensusLeader"
    /\ pc' = "start"
    /\ cert' = result.cert
    /\ block' = result.block
    /\ result' = Pending
    /\ NewCollection
    /\ qcs' = {}
    /\ UNCHANGED <<cur_view, high_qc, generic_qc, proposal_vars, broadcast,
                   consumed, consensus_guard, others>>

\* commitment proposal => quorum votes: the DANextLeader that collects the
\* votes of the view is constructed with the QC the quorum leader returned
StartNextLeader ==
    /\ task = "DAConsensusLeader"
    /\ pc = "done"
    /\ result.kind = "HighQC"
    /\ task' = "DANextLeader"
    /\ pc' = "recv"
    /\ generic_qc' = result.cert
    /\ qcs' = {result.cert}
    /\ result' = Pending
    /\ NewCollection
    /\ consumed' = 0
    /\ UNCHANGED <<cur_view, high_qc, cert, block, proposal_vars, broadcast,
                   consensus_guard, others>>

\* QC => the view advances: the leaf of the view is saved in the consensus
\* state with the new QC as high_qc, and the DALeader of the next view is
\* constructed with that QC
NextRound ==
    /\ task = "DANextLeader"
    /\ pc = "done"
    /\ result.kind = "NewQC"
    /\ cur_view < MaxView
    /\ env.kind = "honest"
    /\ env' = [env EXCEPT !.consensus =
                  [state_map |-> MapInsert(@.state_map, cur_view,
                                           ViewLeaf(DALeafCommit(leaf))),
                   saved_leaves |-> MapInsert(@.saved_leaves, DALeafCommit(leaf), leaf),
                   high_qc |-> result.cert]]
    /\ task' = "DALeader"
    /\ pc' = "start"
    /\ cur_view' = cur_view + 1
    /\ high_qc' = result.cert
    /\ cert' = NoCert
    /\ block' = {}
    /\ generic_qc' = GenesisQC
    /\ leaf' = NoLeaf
    /\ qcs' = {}
    /\ result' = Pending
    /\ NewCollection
    /\ consumed' = 0
    /\ UNCHANGED <<consensus, consensus_after, parent_leaf, lookup,
                   previous_used_txns, snapshot, unclaimed_txns, clock, txns,
                   checks, broadcast, consensus_guard, verifier, network, channel>>

\* ---------------------------------------------------- rounds among honest nodes
\* The consensus state of an honest node before view 1: the genesis leaf with
\* its state is saved for view 0 and high_qc is the genesis QC.
HonestEnvs ==
    {[kind |-> "honest", consensus |-> c] :
        c \in {c \in ConsensusStates :
                  /\ c.high_qc = GenesisQC
                  /\ IsSome(parent_leaf_of(c, GenesisQC))
                  /\ IsLeft(parent_leaf_of(c, GenesisQC).leaf)}}

\* the DALeader of view 1 of an honest node
HonestInit ==
    /\ task = "DALeader"
    /\ pc = "start"
    /\ cur_view = 1
    /\ high_qc = GenesisQC
    /\ cert = NoCert
    /\ block = {}
    /\ generic_qc = GenesisQC
    /\ consensus = NoConsensus
    /\ parent_leaf = NoLeaf
    /\ lookup = "-"
    /\ previous_used_txns = {}
    /\ snapshot = {}
    /\ unclaimed_txns = {}
    /\ clock = 0
    /\ txns = {}
    /\ checks = NoChecks
    /\ broadcast = {}
    /\ leaf = NoLeaf
    /\ vote_outcomes = EmptyMap
    /\ stake_casted = 0
    /\ qcs = {}
    /\ msg = NoMsg
    /\ consumed = 0
    /\ timeouts_sent = <<>>
    /\ result = Pending
    /\ accepted = NoAccepted
    /\ timeout_qcs = {}
    /\ consensus_after = NoConsensus
    /\ consensus_guard = FALSE
    /\ verifier = Absent
    /\ network = Absent
    /\ channel = Absent
    /\ env \in HonestEnvs

\* The steps of the tasks when the replicas are honest, the network delivers
\* and the mempool holds transactions: the pool is never found empty and its
\* change stream stays open, the application accepts the block, the network
\* takes every proposal, the vote channel stays open and carries the votes of
\* the replicas.  Time is left as it is: elapsed() returns what it returns.
HonestNext ==
    \/ DAStart
    \/ WaitStart
    \/ WaitIteration /\ (pc' # "done" => snapshot' # {})
    \/ WaitRecv /\ pc' # "done"
    \/ Pack
    \/ AppendBlock /\ pc' = "broadcast"
    \/ Broadcast /\ broadcast' # broadcast
    \/ StartQuorumLeader
    \/ CLStart
    \/ CLPropose /\ broadcast' # broadcast
    \/ StartNextLeader
    \/ Recv
    \/ DALeaderBody
    \/ DANextLeaderBody
    \/ NextRound

\* async_timeout(duration, receiver.recv()) answers Err when duration passed
TimeIsUp == WaitRecv /\ pc' \in {"pack", "append"}

\* the node keeps running its tasks, and a timer that is set again and again
\* fires
HonestSpec ==
    HonestInit /\ [][HonestNext]_vars /\ WF_vars(HonestNext) /\ SF_vars(TimeIsUp)

\* ---- C31
\* C31: among honest replicas, with a network that delivers and a mempool that
\* holds transactions, every view makes progress: its DA leader eventually
\* returns a DA certificate with its block, the quorum leader then broadcasts
\* a commitment proposal of that view carrying the certificate, and the next
\* leader eventually returns a new QC of that view.
C31_ProgressWithHonestNodes ==
    \A v \in 1..MaxView :
        /\ <>(IsDA /\ cur_view = v /\ pc = "done" /\ result.kind = "Some")
        /\ <>(/\ IsCL /\ cur_view = v /\ pc = "done"
              /\ \E p \in broadcast : /\ p.type = "CommitmentProposal"
                                      /\ p.view_number = v
                                      /\ p.dac = cert)
        /\ <>(/\ IsNL /\ cur_view = v /\ pc = "done"
              /\ result.kind = "NewQC" /\ result.cert.view_number = v)

\* ------------------------------------------- one set of votes, two orders
\* no vote collection has ended yet
NoOutcome == [certificate |-> FALSE, commitments |-> {}, after |-> 0, ended |-> FALSE]

\* The votes of the task's view and kind that pass its validation.
ValidVotes ==
    {m \in Deliverable(task, cur_view, block) :
        /\ m.type = "Vote" /\ m.kind = OwnKind /\ ~ForeignView(m)
        /\ SenderMatches(m)
        /\ IF IsDA THEN DAVoteValid(m) ELSE YesVoteValid(m)}

\* The sets of valid votes in which each voter votes once.
ReplayEnvs ==
    {[kind |-> "replay", votes |-> V, first |-> NoOutcome] :
        V \in {V \in SUBSET ValidVotes :
                 \A m1 \in V, m2 \in V : m1.key = m2.key => m1 = m2}}

\* a DALeader or a DANextLeader of view 1 at the start of its vote collection
OrderInit ==
    /\ task \in {"DALeader", "DANextLeader"}
    /\ pc = "recv"
    /\ cur_view = 1
    /\ high_qc = GenesisQC
    /\ cert = NoCert
    /\ block = IF task = "DALeader" THEN {} ELSE None
    /\ generic_qc = GenesisQC
    /\ consensus = NoConsensus
    /\ parent_leaf = NoLeaf
    /\ lookup = "-"
    /\ previous_used_txns = {}
    /\ snapshot = {}
    /\ unclaimed_txns = {}
    /\ clock = 0
    /\ txns = {}
    /\ checks = NoChecks
    /\ broadcast = {}
    /\ leaf = NoLeaf
    /\ vote_outcomes = EmptyMap
    /\ stake_casted = 0
    /\ qcs = IF task = "DANextLeader" THEN {generic_qc} ELSE {}
    /\ msg = NoMsg
    /\ consumed = 0
    /\ timeouts_sent = <<>>
    /\ result = Pending
    /\ accepted = NoAccepted
    /\ timeout_qcs = {}
    /\ consensus_after = NoConsensus
    /\ consensus_guard = FALSE
    /\ verifier = Absent
    /\ network = Absent
    /\ channel = Absent
    /\ env \in ReplayEnvs

\* the collection returned a certificate, or took every vote there is
CollectionOver == pc = "done" \/ (pc = "recv" /\ Inbox = {})

\* How the collection ended: whether with a certificate, for which
\* commitment (the one its signers cast their votes for), and after how many
\* votes taken from the channel.
Outcome ==
    [certificate |-> NewCertificate,
     commitments |-> IF NewCertificate
                     THEN {m.commitment : m \in {m \in env.votes :
                              m.key \in DOMAIN result.cert.signatures}}
                     ELSE {},
     after |-> consumed,
     ended |-> TRUE]

\* the same task collects the same votes once more, with fresh locals
Rerun ==
    /\ env.kind = "replay"
    /\ ~env.first.ended
    /\ CollectionOver
    /\ env' = [env EXCEPT !.first = Outcome]
    /\ pc' = "recv"
    /\ result' = Pending
    /\ consumed' = 0
    /\ NewCollection
    /\ UNCHANGED <<fields, block, proposal_vars, broadcast, qcs, consensus_guard,
                   verifier, network, channel>>

OrderNext ==
    \/ Recv
    \/ DALeaderBody
    \/ DANextLeaderBody
    \/ Rerun

OrderSpec == OrderInit /\ [][OrderNext]_vars

\* ---- C32
\* C32: the vote collection is commutative.  When the same valid votes, one per
\* voter, are collected twice in whatever orders, both collections end with a
\* certificate for the same commitment or both without one, and when all the
\* votes are for one commitment the certificate comes after the same number of
\* votes taken.
C32_AccumulationCommutative ==
    (env.kind = "replay" /\ env.first.ended /\ CollectionOver)
        => /\ Outcome.certificate = env.first.certificate
           /\ Outcome.commitments = env.first.commitments
           /\ (/\ Outcome.certificate
               /\ Cardinality({m.commitment : m \in env.votes}) = 1)
                  => Outcome.after = env.first.after

\* ================================================= the methods of an exchange
\* ------------------------------------------------------- accumulate_internal
\* VoteMetaData
VoteMetaData(encoded_key, encoded_signature, commitment, data, vote_token, view_number, relay) ==
    [encoded_key |-> encoded_key, encoded_signature |-> encoded_signature,
     commitment |-> commitment, data |-> data, vote_token |-> vote_token,
     view_number |-> view_number, relay |-> relay]

\* The vote accumulator (its code is not in the files at hand; spec 4.4): per
\* vote commitment the stake collected and the keys that signed.
VoteAccumulator(outcomes) == [outcomes |-> outcomes]

\* VoteAccumulator::append (spec 4.4, steps 1 to 5): the vote of a key without
\* stake-table entry and a second vote of a key for the same commitment leave
\* the accumulator as it is; otherwise the signature is inserted and the stake
\* of the commitment grows by token.vote_count(); at the threshold the
\* signatures are combined, the entry is removed and the assembled signature
\* is returned.
append(accumulator, commitment, encoded_key, stake_table, node_id, data, token) ==
    LET key == from_bytes(encoded_key)
        outcomes == accumulator.outcomes
        old == IF commitment \in DOMAIN outcomes THEN outcomes[commitment]
               ELSE [stake |-> 0, signers |-> {}]
        new == [stake |-> old.stake + token.vote_count,
                signers |-> old.signers \cup {key}]
    IN  IF key \notin DOMAIN stake_table THEN Left(accumulator)
        ELSE IF key \in old.signers THEN Left(accumulator)
        ELSE IF new.stake >= Threshold
             THEN [side |-> "Right",
                   value |-> AssembledSignature(data.kind, new.signers,
                                                VoteDataCommit(data))]
             ELSE [side |-> "Left",
                   value |-> VoteAccumulator(MapInsert(outcomes, commitment, new))]

\* ViewSyncCertificate: PreCommit, Commit or Finalize of a
\* ViewSyncCertificateInternal
ViewSyncCertificate(phase, relay, round, signatures) ==
    [type |-> "ViewSyncCertificate", phase |-> phase, relay |-> relay,
     round |-> round, signatures |-> signatures]

\* Option<u64>
Some(x) == <<x>>
NoRelay == <<>>

\* a call that does not return: unwrap() of None, unimplemented!()
Panic == [side |-> "Panic", value |-> None]

\* SignedCertificate::from_signatures_and_commitment of the certificate type
\* of the exchange: QuorumCertificate, DACertificate, ViewSyncCertificate
\* (whose phase is that of the signature, whose round is the view, and which
\* unwraps the relay)
from_signatures_and_commitment(exchange, view_number, signatures, commit, relay) ==
    CASE exchange = "Quorum" ->
             [side |-> "Right",
              value |-> QuorumCert(commit, view_number, signatures, FALSE)]
      [] exchange = "Committee" ->
             [side |-> "Right", value |-> DACert(view_number, signatures, commit)]
      [] exchange = "ViewSync" ->
             IF signatures.variant \notin ViewSyncVariants \/ relay = NoRelay
             THEN Panic
             ELSE [side |-> "Right",
                   value |-> ViewSyncCertificate(signatures.variant, relay[1],
                                                 view_number, signatures)]

\* mutant: the vote is appended without being validated
accumulate_internal_Unvalidated(exchange, vota_meta, accumulator) ==
    LET r == append(accumulator, vota_meta.commitment, vota_meta.encoded_key,
                    StakeTable, 0, vota_meta.data, vota_meta.vote_token)
    IN  IF from_bytes(vota_meta.encoded_key) = None THEN Left(accumulator)
        ELSE IF r.side = "Left" THEN r
        ELSE from_signatures_and_commitment(exchange, vota_meta.view_number,
                 r.value, vota_meta.commitment, vota_meta.relay)

\* ConsensusExchange::accumulate_internal.  The node id is the position of
\* the entry (key, stake 1) in the committee stake table, unwrapped.
accumulate_internal(exchange, vota_meta, accumulator) ==
    IF ~is_valid_vote(vota_meta.encoded_key, vota_meta.encoded_signature,
                      vota_meta.data, vota_meta.vote_token)
    THEN Left(accumulator)
    ELSE LET key == from_bytes(vota_meta.encoded_key) IN
         IF key # None
         THEN LET order == <<"A", "B", "C", "D">>
                  stake_table_entry == <<key, 1>>
                  positions == {i \in DOMAIN order :
                                  <<order[i], StakeTable[order[i]]>> = stake_table_entry}
              IN  IF positions = {} THEN Panic
                  ELSE LET append_node_id == CHOOSE i \in positions :
                                                 \A j \in positions : i <= j
                           r == append(accumulator, vota_meta.commitment,
                                       vota_meta.encoded_key, StakeTable,
                                       append_node_id, vota_meta.data,
                                       vota_meta.vote_token)
                       IN  IF r.side = "Left" THEN r
                           ELSE from_signatures_and_commitment(exchange,
                                    vota_meta.view_number, r.value,
                                    vota_meta.commitment, vota_meta.relay)
         ELSE Left(accumulator)

\* ViewSyncData::commit
ViewSyncDataCommit(relay, round) == <<"ViewSyncData", relay, round>>

\* what the votes of an exchange are about
VoteCommitments(exchange) ==
    IF exchange = "ViewSync"
    THEN {ViewSyncDataCommit(to_bytes(get_leader(1 + relay)), 1) : relay \in {0, 1}}
    ELSE ExchangeCommitments(exchange)

\* the vote kinds of an exchange
ExchangeKinds(exchange) ==
    CASE exchange = "Quorum" -> {"Yes", "No"}
      [] exchange = "Committee" -> {"DA"}
      [] exchange = "ViewSync" -> ViewSyncVariants

\* The votes an exchange may be asked to accumulate: of any key or of bytes
\* that are no key, signed by that key or by another, filed under any
\* commitment, with a token of the key or of another.  QuorumExchange and
\* CommitteeExchange pass no relay.
VoteMetas(exchange) ==
    {VoteMetaData(ek, sign(signer, VoteDataCommit(VoteData(kind, c))), c,
                  VoteData(kind, c), Token(owner, 1), v, relay) :
        ek \in {to_bytes("A"), to_bytes("B"), to_bytes("C"), <<"garbage", "A">>},
        signer \in {"A", "B", "C"}, owner \in {"A", "B", "C"},
        kind \in ExchangeKinds(exchange), c \in VoteCommitments(exchange),
        v \in {1, MaxView},
        relay \in (IF exchange = "ViewSync" THEN {NoRelay, Some(0), Some(1)}
                   ELSE {NoRelay})}

\* The accumulators a vote may come to: per commitment the votes of no key,
\* one key or two keys.
Accumulators(exchange) ==
    LET few == {{}, {"A"}, {"B"}, {"A", "B"}, {"B", "D"}}
    IN  {VoteAccumulator([c \in {c \in VoteCommitments(exchange) : f[c] # {}} |->
                             [stake |-> Cardinality(f[c]), signers |-> f[c]]]) :
            f \in [VoteCommitments(exchange) -> few]}

\* the exchange is handed a vote and the accumulator of its view
AccumulateVote ==
    /\ verifier.pc = "idle"
    /\ \E vota_meta \in VoteMetas(verifier.exchange),
          accumulator \in Accumulators(verifier.exchange) :
          verifier' = [exchange |-> verifier.exchange, pc |-> "accumulated",
                       vota_meta |-> vota_meta, accumulator |-> accumulator,
                       returned |-> accumulate_internal(verifier.exchange,
                                                        vota_meta, accumulator)]
    /\ UNCHANGED <<leader_vars, network, channel>>

\* --------------------------------------------------- is_valid_view_sync_cert
\* Membership::failure_threshold: the stake that the votes outside a success
\* quorum cannot reach (spec 4.3: at least total - success + 1)
FailureThreshold == Cardinality(Keys) - Threshold + 1

\* ViewSyncExchange::is_valid_view_sync_cert: the vote data is that of the
\* relay's leader and the round, whatever the phase; what is checked, and
\* against which threshold, follows from the variant of the signatures
is_valid_view_sync_cert(certificate, round) ==
    LET vote_data == ViewSyncDataCommit(
                         to_bytes(get_leader(round + certificate.relay)), round)
        signatures == certificate.signatures
        variant == signatures.variant
        real_commit == VoteDataCommit(VoteData(variant, vote_data))
    IN  IF variant = "ViewSyncPreCommit"
        THEN check([stake_table |-> StakeTable, threshold |-> FailureThreshold],
                   real_commit, signatures)
        ELSE IF variant \in {"ViewSyncCommit", "ViewSyncFinalize"}
        THEN check([stake_table |-> StakeTable, threshold |-> Threshold],
                   real_commit, signatures)
        ELSE TRUE

\* The view sync certificates the exchange may be handed: of any phase, relay
\* and round, with an assembled signature of any variant, made by a success
\* quorum, a failure quorum or less, over the vote data of a round and relay
\* tagged as a vote of any kind.
ViewSyncCertificates ==
    LET sigs == {AssembledGenesis} \cup
                {AssembledSignature(variant, signers,
                     VoteDataCommit(VoteData(k,
                         ViewSyncDataCommit(to_bytes(get_leader(r + relay)), r)))) :
                    variant \in {"Yes", "DA"} \cup ViewSyncVariants,
                    signers \in {{"A", "B", "C"}, {"A", "B"}, {"A"}},
                    k \in {"Yes"} \cup ViewSyncVariants,
                    r \in {1}, relay \in {0, 1}}
    IN  {ViewSyncCertificate(phase, relay, round, sig) :
            phase \in ViewSyncVariants, relay \in {0, 1}, round \in {1, MaxView},
            sig \in sigs}

\* the view sync exchange is handed a certificate and the round it is for
ValidateViewSyncCert ==
    /\ verifier.pc = "idle"
    /\ verifier.exchange = "ViewSync"
    /\ \E certificate \in ViewSyncCertificates, round \in {1, MaxView} :
          verifier' = [exchange |-> verifier.exchange, pc |-> "view sync validated",
                       certificate |-> certificate, round |-> round,
                       valid |-> is_valid_view_sync_cert(certificate, round)]
    /\ UNCHANGED <<leader_vars, network, channel>>

\* -------------------------------------------------------------- is_valid_vote
\* The votes an exchange may be asked to validate: key bytes that decode or
\* not, a signature of that key or of another over the vote data or over
\* other data, and a token the membership answers Valid, Inval, Unchecked or
\* Err to.
VoteInputs(exchange) ==
    [encoded_key : {to_bytes("A"), to_bytes("B"), <<"garbage", "A">>},
     encoded_signature : {sign(signer, VoteDataCommit(VoteData(kind, c))) :
                             signer \in {"A", "B"}, kind \in {"DA", "Yes", "No"},
                             c \in VoteCommitments(exchange)},
     data : {VoteData(kind, c) : kind \in ExchangeKinds(exchange),
                                 c \in VoteCommitments(exchange)},
     vote_token : {Token("A", 1), Token("B", 1), Token("A", 2),
                   Token("unchecked", 1), Token("unreadable", 1)}]

\* the exchange is handed a vote and validates it
ValidateVote ==
    /\ verifier.pc = "idle"
    /\ verifier.exchange \in {"Quorum", "Committee"}
    /\ \E vote \in VoteInputs(verifier.exchange) :
          verifier' = [exchange |-> verifier.exchange, pc |-> "vote validated",
                       vote |-> vote,
                       valid |-> is_valid_vote(vote.encoded_key,
                                               vote.encoded_signature,
                                               vote.data, vote.vote_token)]
    /\ UNCHANGED <<leader_vars, network, channel>>

\* ------------------------------------------------------- the vote messages
\* CommitteeExchange::create_da_message, the DAVote of the exchange of key k
create_da_message(k, block_commitment, current_view, vote_token) ==
    [variant |-> "DAVote",
     signature |-> <<to_bytes(k), sign_da_vote(k, block_commitment)>>,
     block_commitment |-> block_commitment, current_view |-> current_view,
     vote_token |-> vote_token, vote_data |-> VoteData("DA", block_commitment)]

\* QuorumExchange::create_yes_message
create_yes_message(k, justify_qc_commitment, leaf_commitment, current_view, vote_token) ==
    [variant |-> "Yes", justify_qc_commitment |-> justify_qc_commitment,
     signature |-> <<to_bytes(k), sign_yes_vote(k, leaf_commitment)>>,
     leaf_commitment |-> leaf_commitment, current_view |-> current_view,
     vote_token |-> vote_token, vote_data |-> VoteData("Yes", leaf_commitment)]

\* mutant: the No vote carries the signature of a Yes vote
create_no_message_YesSigned(k, justify_qc_commitment, leaf_commitment, current_view, vote_token) ==
    [variant |-> "No", justify_qc_commitment |-> justify_qc_commitment,
     signature |-> <<to_bytes(k), sign_yes_vote(k, leaf_commitment)>>,
     leaf_commitment |-> leaf_commitment, current_view |-> current_view,
     vote_token |-> vote_token, vote_data |-> VoteData("No", leaf_commitment)]

\* QuorumExchange::create_no_message
create_no_message(k, justify_qc_commitment, leaf_commitment, current_view, vote_token) ==
    [variant |-> "No", justify_qc_commitment |-> justify_qc_commitment,
     signature |-> <<to_bytes(k), sign_no_vote(k, leaf_commitment)>>,
     leaf_commitment |-> leaf_commitment, current_view |-> current_view,
     vote_token |-> vote_token, vote_data |-> VoteData("No", leaf_commitment)]

\* QuorumExchange::create_timeout_message
create_timeout_message(k, qc, current_view, vote_token) ==
    [variant |-> "Timeout", high_qc |-> qc,
     signature |-> <<to_bytes(k), sign_timeout_vote(k, current_view)>>,
     current_view |-> current_view, vote_token |-> vote_token,
     vote_data |-> VoteData("Timeout", ViewCommit(current_view))]

\* the exchange of a node builds a vote: the committee exchange a DA vote
\* over a block commitment, the quorum exchange a Yes or No vote over a leaf
\* commitment or a Timeout vote with the node's high QC
CreateMessage ==
    /\ verifier.pc = "idle"
    /\ verifier.exchange \in {"Quorum", "Committee"}
    /\ \E k \in {"A", "B"}, c \in ExchangeCommitments(verifier.exchange),
          current_view \in Views, qc \in AllQCs,
          kind \in (IF verifier.exchange = "Committee" THEN {"DA"}
                    ELSE {"Yes", "No", "Timeout"}) :
          LET vote_token == Token(k, StakeTable[k])
              j == <<"qc", qc.view_number>>
          IN  verifier' =
                [exchange |-> verifier.exchange, pc |-> "created", key |-> k,
                 kind |-> kind, commitment |-> c, current_view |-> current_view,
                 high_qc |-> qc, vote_token |-> vote_token,
                 message |->
                    CASE kind = "DA" -> create_da_message(k, c, current_view, vote_token)
                      [] kind = "Yes" ->
                            create_yes_message(k, j, c, current_view, vote_token)
                      [] kind = "No" ->
                            create_no_message(k, j, c, current_view, vote_token)
                      [] kind = "Timeout" ->
                            create_timeout_message(k, qc, current_view,
                                                   vote_token)]
    /\ UNCHANGED <<leader_vars, network, channel>>

VerifierNext ==
    \/ ValidateCert
    \/ AccumulateVote
    \/ ValidateViewSyncCert
    \/ ValidateVote
    \/ CreateMessage

VerifierSpec == VerifierInit /\ [][VerifierNext]_vars

\* ---- C33
Accumulated == verifier.pc = "accumulated"

\* C33: accumulate_internal returns the accumulator it was given, unchanged,
\* when the vote is not valid or its key does not decode; a certificate it
\* returns carries the view number of the vote's metadata, the commitment of
\* the metadata (a quorum or DA certificate) and its relay (a view sync
\* certificate).
C33_AccumulateInternal ==
    Accumulated =>
        LET m == verifier.vota_meta
            r == verifier.returned
        IN  /\ (\/ from_bytes(m.encoded_key) = None
                \/ ~is_valid_vote(m.encoded_key, m.encoded_signature, m.data,
                                  m.vote_token))
                  => r = Left(verifier.accumulator)
            /\ r.side = "Right"
                  => IF verifier.exchange = "ViewSync"
                     THEN /\ r.value.round = m.view_number
                          /\ Some(r.value.relay) = m.relay
                     ELSE /\ r.value.view_number = m.view_number
                          /\ r.value.leaf_commitment = m.commitment

\* a vote completed a DA certificate, and an invalid vote was handed in
C33_Witness ==
    /\ Accumulated
    /\ verifier.exchange = "Committee"
    /\ verifier.returned.side = "Right"
    /\ verifier.returned.value.view_number = MaxView

\* ---- C34
\* C34: is_valid_view_sync_cert rejects a certificate whose assembled
\* signature is not a view sync variant and one whose variant is not that of
\* the certificate's phase; a PreCommit certificate it accepts is verified
\* against the failure threshold over the PreCommit-tagged commitment, a
\* Commit or Finalize certificate against the success threshold over the
\* commitment tagged with its own phase.
C34_ViewSyncCertValidation ==
    verifier.pc = "view sync validated" =>
        LET certificate == verifier.certificate
            variant == certificate.signatures.variant
            bytes == VoteDataCommit(VoteData(certificate.phase,
                         ViewSyncDataCommit(
                             to_bytes(get_leader(verifier.round + certificate.relay)),
                             verifier.round)))
            threshold == IF certificate.phase = "ViewSyncPreCommit"
                         THEN FailureThreshold ELSE Threshold
        IN  /\ variant \notin ViewSyncVariants => ~verifier.valid
            /\ variant # certificate.phase => ~verifier.valid
            /\ verifier.valid
                  => check([stake_table |-> StakeTable, threshold |-> threshold],
                           bytes, certificate.signatures)

\* ---- C35
\* C35: a certificate that is not a genesis certificate is accepted by
\* is_valid_cert only if its commitment is the expected one and its
\* aggregated signature verifies, with the stake table and the success
\* threshold, over that commitment tagged with the certificate's own variant;
\* with another commitment than the expected one it is rejected.
C35_ValidCertNeedsSignature ==
    (Validated /\ ~verifier.qc.is_genesis) =>
        LET qc == verifier.qc
            variant == qc.signatures.variant
        IN  /\ verifier.valid
                  => /\ qc.leaf_commitment = verifier.commit
                     /\ variant # "Genesis"
                     /\ check([stake_table |-> StakeTable, threshold |-> Threshold],
                              VoteDataCommit(VoteData(variant, qc.leaf_commitment)),
                              qc.signatures)
            /\ qc.leaf_commitment # verifier.commit => ~verifier.valid

\* ---- C36
\* what the membership answers to the token of the validated vote, asked
\* with the key the signature names
TokenAnswer(vote) == validate_vote_token(vote.encoded_signature.signer, vote.vote_token)

\* C36: is_valid_vote answers true exactly when the key bytes decode, the
\* signature is one of that key over the commitment of the vote data, and the
\* membership answers Ok(Valid) to the token; a token answered Inval,
\* Unchecked or Err and key bytes that do not decode make it false.
C36_ValidVote ==
    verifier.pc = "vote validated" =>
        LET vote == verifier.vote
            decodes == vote.encoded_key[1] = "pk"
            signed == /\ to_bytes(vote.encoded_signature.signer) = vote.encoded_key
                      /\ vote.encoded_signature.over[1] = VoteDataTag(vote.data.kind)
                      /\ vote.encoded_signature.over[2] = vote.data.commitment
        IN  verifier.valid <=> (decodes /\ signed /\ TokenAnswer(vote) = "Valid")

\* a vote was accepted, and one with a good key and signature was refused
\* for its token alone
C36_Witness ==
    /\ verifier.pc = "vote validated"
    /\ ~verifier.valid
    /\ verifier.vote.encoded_key = to_bytes("A")
    /\ verifier.vote.encoded_signature
           = sign("A", VoteDataCommit(verifier.vote.data))
    /\ verifier.vote.vote_token = Token("unchecked", 1)

\* ---- C37
\* every vote data a leader may validate a signature against
AllVoteData ==
    {VoteData(kind, c) : kind \in {"DA", "Yes", "No", "Timeout"},
                         c \in Commitments \cup {ViewCommit(v) : v \in Views}}

\* C37: a vote built by create_da_message, create_yes_message,
\* create_no_message or create_timeout_message carries the encoded key of its
\* exchange and the vote data DA(c), Yes(c), No(c) or Timeout(commit(view)),
\* and is_valid_vote accepts its signature for that vote data and for no
\* other; the signature of a Timeout vote is the same whatever the high QC.
C37_SignVerifyRoundTrip ==
    verifier.pc = "created" =>
        LET m == verifier.message
            own == VoteData(verifier.kind,
                            IF verifier.kind = "Timeout"
                            THEN ViewCommit(verifier.current_view)
                            ELSE verifier.commitment)
        IN  /\ m.signature[1] = to_bytes(verifier.key)
            /\ m.vote_data = own
            /\ m.vote_token = verifier.vote_token
            /\ \A data \in AllVoteData :
                  is_valid_vote(m.signature[1], m.signature[2], data, m.vote_token)
                     <=> data = own
            /\ verifier.kind = "Timeout"
                  => \A qc \in AllQCs :
                        create_timeout_message(verifier.key, qc, verifier.current_view,
                                               verifier.vote_token).signature
                           = m.signature

\* a Timeout vote was built with a high QC that is not the genesis QC
C37_Witness ==
    /\ verifier.pc = "created"
    /\ verifier.kind = "Timeout"
    /\ verifier.message.high_qc # GenesisQC
    /\ is_valid_vote(verifier.message.signature[1], verifier.message.signature[2],
                     verifier.message.vote_data, verifier.message.vote_token)

\* ---- C38
\* C38: the DA certificate and the block DALeader::run_view returns belong
\* together.  No vote labelled with another block commitment than that of the
\* leader's block has its stake counted, and the certificate returned is made
\* of the votes labelled with the commitment of the returned block, each
\* signature validating over DA(commit(block)).
C38_CertificateMatchesBlock ==
    IsDA =>
        /\ \A c \in BlockCommitments :
              c # BlockCommit(block) => accepted[c].stake = 0
        /\ result.kind = "Some"
              => /\ result.block = block
                 /\ msg.commitment = BlockCommit(result.block)
                 /\ \A k \in DOMAIN result.cert.signatures :
                       validate(from_bytes(k), result.cert.signatures[k].sig,
                                VoteDataCommit(VoteData("DA", BlockCommit(result.block))))

\* ------------------------------------- the DA leader and the quorum leader
\* The leader tasks as in Spec, with the quorum leader of a view also started
\* from what the DA leader of that view returned.
PipelineNext ==
    \/ Next
    \/ StartQuorumLeader

PipelineSpec == Init /\ [][PipelineNext]_vars

\* ---- C39
\* the quorum leader was started with the certificate and the block of a DA
\* leader that collected votes
HandedOver == IsCL /\ consumed > 0

\* the DA certificate, as the DA committee's exchange verifies it, is a valid
\* certificate over block commitment c: its signatures are DA votes over c of
\* keys whose stake reaches the success threshold
Attests(dac, c) ==
    LET bytes == VoteDataCommit(VoteData("DA", c))
        signers == {from_bytes(k) : k \in DOMAIN dac.signatures}
    IN  /\ \A k \in DOMAIN dac.signatures :
              validate(from_bytes(k), dac.signatures[k].sig, bytes)
        /\ is_valid_cert(DACert(dac.view_number,
                                AssembledSignature("DA", signers, bytes), c), c)

SendTypes ==
    {"QuorumProposalSend", "QuorumVoteSend", "DAProposalSend", "DAVoteSend",
     "DACSend", "TransactionSend", "ViewSyncVoteSend", "ViewSyncCertificateSend"}
RecvTypes ==
    {"QuorumProposalRecv", "QuorumVoteRecv", "DAProposalRecv", "DAVoteRecv",
     "DACRecv", "TransactionRecv", "ViewSyncVoteRecv", "ViewSyncCertificateRecv"}

\* the task kinds whose filter lets an event of this variant through
Servicing(type) ==
    {task_kind \in NetworkTaskKinds : filter(task_kind, Item(type, 1, 0, "t1", "A"))}

\* C40: each of the eight Send events is accepted by the filter of exactly
\* one network task kind and every Recv event by none; the task that accepted
\* a Send event hands one message to the channel, neither two nor none, and
\* no task handles an event that was received from the network.
C40_SendServicedByOneTask ==
    /\ \A type \in SendTypes : Cardinality(Servicing(type)) = 1
    /\ \A type \in RecvTypes : Servicing(type) = {}
    /\ ~HandledEvent(RecvTypes)
    /\ HandledEvent(SendTypes) =>
          /\ network.task_kind \in Servicing(network.given.type)
          /\ Len(network.sent) = 1
====
